---- MODULE Spec2Model ----
(***************************************************************************)
(* Availability engine of the Bubblegum Cars staff dashboard.              *)
(*                                                                         *)
(* The repository holds several rewrites of api/availability.js.  The      *)
(* model covers the three whose interval logic differs:                    *)
(*   - src/api/availability.js            (HandlerAvailability)            *)
(*   - src/unnamed/part_000, first file   (HandlerRentable)                *)
(*   - src/unnamed/part_008, second file  (HandlerRealistic)               *)
(*                                                                         *)
(* Time is counted in minutes: an instant n of the model is the JavaScript *)
(* epoch value n * 60000 ms, a buffer of n is n * 60 seconds.  A timestamp *)
(* string is the record [kind, civil, off]: civil is the wall-clock        *)
(* reading of its digits (minutes, read as if UTC), kind tells whether a   *)
(* zone suffix follows and off is that suffix in minutes.                  *)
(***************************************************************************)
EXTENDS Integers, Sequences, FiniteSets, TLC

VARIABLES
  plannings,            \* upstream /plannings rows of the car, in upstream order
  car,                  \* the car's product record (buffer_before_s, buffer_after_s)
  nowMs,                \* Date.now() of the request
  offsetMinutes,        \* settings.defaults.timezone_offset
  minRentableGapHours,  \* req.query.minRentableGapHours || default
  pc,                   \* "idle" before the request is served, "done" after
  resp,                 \* what the handler computed for the car
  stamp,                \* a timestamp string handed to a parser
  instant,              \* what the parser returned for it, and which parser
  other,                \* another car of the fleet: its product record and its rows
  config,               \* the zone offset as configured (env variable, settings)
  setup,                \* what reading the configuration ended in
  cache,                \* _cache of api/availability.js: [at, payload]
  reqs,                 \* the requests in flight or answered, by request id
  clock,                \* the process's Date.now()
  call,                 \* one booqable() call: attempts made, waits, outcome
  env                   \* process.env: are company slug and access token set

vars == <<plannings, car, nowMs, offsetMinutes, minRentableGapHours, pc, resp,
          stamp, instant, other, config, setup, cache, reqs, clock, call,
          env>>

(***************************************************************************)
(* Program constants (minutes where the source has milliseconds).          *)
(***************************************************************************)
DAY_MS == 1440
HOUR_MS == 60
RANGE_DAYS == 4
MIN_RENTABLE_GAP_HOURS_DEFAULT == 4
TZ_OFFSET_HOURS == 10
EARLY_CUTOFF_HOUR == 6
MIN_GAP_HOURS == 4
DEFAULT_DAYS == 4
REALISTIC_TZ_OFFSET_HOURS == 0
BUSINESS_OPEN_HOUR == 9
BUSINESS_CLOSE_HOUR == 18
EARLY_MORNING_HOUR == 8
EARLY_MORNING_MINUTE == 45

TZ_OFFSET_MS == TZ_OFFSET_HOURS * HOUR_MS
MIN_GAP_MS == MIN_GAP_HOURS * HOUR_MS
REALISTIC_TZ_OFFSET_MS == REALISTIC_TZ_OFFSET_HOURS * HOUR_MS

(***************************************************************************)
(* Bounds of the model.                                                    *)
(***************************************************************************)
MaxPlannings == 2
MaxMergeInputs == 3
MaxTileRows == 2
MaxStampDays == 1
MaxOffset == 14
MaxFleetRows == 2
MaxFaultRows == 2
MaxRoundDays == 2
MaxNowDays == 2
MaxHoursRows == 2
MaxRequests == 2
MaxClockTicks == 3
MaxCalls == 3

(***************************************************************************)
(* Timestamps, dates and formatted text.                                   *)
(***************************************************************************)
Naive(c) == [kind |-> "naive", civil |-> c, off |-> 0]
Zoned(c, o) == [kind |-> "zoned", civil |-> c, off |-> o]
BadStamp == [kind |-> "bad", civil |-> 0, off |-> 0]
MissingStamp == [kind |-> "missing", civil |-> 0, off |-> 0]

\* a || b on two timestamp strings
OrElse(a, b) == IF a.kind = "missing" THEN b ELSE a

\* a Date (or epoch number) that may be null / NaN
NoDate == [ok |-> FALSE, t |-> 0]
SomeDate(t) == [ok |-> TRUE, t |-> t]

\* civil reading of a day, hour and minute
At(day, hh, mm) == day * DAY_MS + hh * HOUR_MS + mm

\* getUTCHours / getUTCMinutes of new Date(localMs), and its calendar day
UTCHours(localMs) == (localMs % DAY_MS) \div HOUR_MS
UTCMinutes(localMs) == localMs % HOUR_MS
UTCDay(localMs) == localMs \div DAY_MS

\* "HH:MM" as <<hh, mm>>; an absent field as <<>>
NoTime == <<>>
HHMM(localMs) == <<UTCHours(localMs), UTCMinutes(localMs)>>

\* nextAvailable values: the literal "Available now", null, or day label + time
AvailableNow == [kind |-> "Available now", day |-> 0, time |-> NoTime, booked |-> NoTime]
NullAvailable == [kind |-> "null", day |-> 0, time |-> NoTime, booked |-> NoTime]
DayTimeText(localMs) ==
  [kind |-> "at", day |-> UTCDay(localMs), time |-> HHMM(localMs), booked |-> NoTime]

(***************************************************************************)
(* Array.prototype.sort with a numeric key: a stable insertion sort.       *)
(***************************************************************************)
RECURSIVE InsertIdx(_, _, _)
InsertIdx(keys, i, acc) ==
  IF acc = <<>> THEN <<i>>
  ELSE IF keys[Head(acc)] <= keys[i]
       THEN <<Head(acc)>> \o InsertIdx(keys, i, Tail(acc))
       ELSE <<i>> \o acc

RECURSIVE SortIdx(_, _)
SortIdx(keys, n) ==
  IF n = 0 THEN <<>> ELSE InsertIdx(keys, n, SortIdx(keys, n - 1))

SortByKey(seq, keys) ==
  LET idx == SortIdx(keys, Len(seq))
  IN [k \in 1..Len(seq) |-> seq[idx[k]]]

(***************************************************************************)
(* src/api/availability.js                                                 *)
(***************************************************************************)
\* Every zone marker is stripped and the digits are read as local time.
parseBooqableDate(str, accountOffsetMinutes) ==
  IF str.kind \in {"missing", "bad"} THEN NoDate
  ELSE SomeDate(str.civil - accountOffsetMinutes)

\* an overlap test that counts intervals merely touching the window
overlapClosed(aStart, aEnd, bStart, bEnd) == aStart <= bEnd /\ bStart <= aEnd

overlap(aStart, aEnd, bStart, bEnd) == aStart < bEnd /\ bStart < aEnd

\* a midnight taken from the UTC date of the instant, not from its local date
localMidnightOfUtcDate(baseUtcMs, offMin, addDays) ==
  (UTCDay(baseUtcMs) + addDays) * DAY_MS - offMin

localMidnightUtcMs(baseUtcMs, offMin, addDays) ==
  LET localMs == baseUtcMs + offMin
      localMidnightMs == (UTCDay(localMs) + addDays) * DAY_MS
  IN localMidnightMs - offMin

\* Intl.DateTimeFormat in the account's zone, whose offset is offMin
fmtTime(ms, offMin) == HHMM(ms + offMin)
fmtNextAvailable(ms, offMin) == DayTimeText(ms + offMin)

\* a rounding that sends a late-evening instant to 09:00 of its own day
roundToBusinessHoursSameDay(utcMs, offMin) ==
  LET localMs == utcMs + offMin
      hours == UTCHours(localMs)
      minutes == UTCMinutes(localMs)
      isLateEvening == hours >= BUSINESS_CLOSE_HOUR
      isEarlyMorning == hours < EARLY_MORNING_HOUR
                        \/ (hours = EARLY_MORNING_HOUR /\ minutes <= EARLY_MORNING_MINUTE)
      nineAmLocal == At(UTCDay(localMs), BUSINESS_OPEN_HOUR, 0)
  IN IF isLateEvening \/ isEarlyMorning THEN nineAmLocal - offMin ELSE utcMs

roundToBusinessHours(utcMs, offMin) ==
  LET localMs == utcMs + offMin
      hours == UTCHours(localMs)
      minutes == UTCMinutes(localMs)
      isLateEvening == hours >= BUSINESS_CLOSE_HOUR
      isEarlyMorning == hours < EARLY_MORNING_HOUR
                        \/ (hours = EARLY_MORNING_HOUR /\ minutes <= EARLY_MORNING_MINUTE)
      targetDay == IF isLateEvening THEN UTCDay(localMs) + 1 ELSE UTCDay(localMs)
      nineAmLocal == At(targetDay, BUSINESS_OPEN_HOUR, 0)
  IN IF isLateEvening \/ isEarlyMorning THEN nineAmLocal - offMin ELSE utcMs

\* a planning loop that pads the end with buffer_before_s
RECURSIVE buildIntervalsSwappedBuffer(_, _, _)
buildIntervalsSwappedBuffer(rows, c, offMin) ==
  IF rows = <<>> THEN <<>>
  ELSE LET pl == Head(rows)
           starts == parseBooqableDate(pl.starts_at, offMin)
           stops == parseBooqableDate(pl.stops_at, offMin)
           rest == buildIntervalsSwappedBuffer(Tail(rows), c, offMin)
       IN IF ~starts.ok \/ ~stops.ok THEN rest
          ELSE <<[startMs |-> starts.t - c.buffer_before_s,
                  endMs |-> stops.t + c.buffer_before_s,
                  startsRaw |-> starts.t,
                  stopsRaw |-> stops.t]>> \o rest

\* the planning loop: parse, apply the car's buffers, keep the raw times
RECURSIVE buildIntervals(_, _, _)
buildIntervals(rows, c, offMin) ==
  IF rows = <<>> THEN <<>>
  ELSE LET pl == Head(rows)
           starts == parseBooqableDate(pl.starts_at, offMin)
           stops == parseBooqableDate(pl.stops_at, offMin)
           rest == buildIntervals(Tail(rows), c, offMin)
       IN IF ~starts.ok \/ ~stops.ok THEN rest
          ELSE <<[startMs |-> starts.t - c.buffer_before_s,
                  endMs |-> stops.t + c.buffer_after_s,
                  startsRaw |-> starts.t,
                  stopsRaw |-> stops.t]>> \o rest

sortIntervals(arr) == SortByKey(arr, [i \in 1..Len(arr) |-> arr[i].startMs])

\* a containment test that misses the first instant of an interval
bookedNowOfOpenStart(ivals, now) ==
  \E i \in 1..Len(ivals) : now > ivals[i].startMs /\ now < ivals[i].endMs

bookedNowOf(ivals, now) ==
  \E i \in 1..Len(ivals) : now >= ivals[i].startMs /\ now < ivals[i].endMs

\* a business-hours test that still counts the hour from 18:00
isBusinessHoursThroughSix(now, offMin) ==
  LET currentHour == UTCHours(now + offMin)
  IN currentHour >= BUSINESS_OPEN_HOUR /\ currentHour <= BUSINESS_CLOSE_HOUR

isBusinessHoursAt(now, offMin) ==
  LET currentHour == UTCHours(now + offMin)
  IN currentHour >= BUSINESS_OPEN_HOUR /\ currentHour < BUSINESS_CLOSE_HOUR

\* the loop over ivals that looks for the next slot; i is the loop index (from 1)
RECURSIVE findAvailableSlot(_, _, _, _, _)
findAvailableSlot(ivals, i, now, offMin, gapHours) ==
  IF i > Len(ivals)
  THEN [found |-> FALSE, text |-> NullAvailable, ms |-> NoDate]
  ELSE LET iv == ivals[i]
           roundedEndMs == roundToBusinessHours(iv.endMs, offMin)
           gapMs == ivals[i + 1].startMs - roundedEndMs
       IN IF now >= iv.endMs
          THEN findAvailableSlot(ivals, i + 1, now, offMin, gapHours)
          ELSE IF i + 1 > Len(ivals)
          THEN [found |-> TRUE, text |-> fmtNextAvailable(roundedEndMs, offMin),
                ms |-> SomeDate(roundedEndMs)]
          ELSE IF gapMs > 0 /\ gapMs < gapHours * HOUR_MS
          THEN [found |-> TRUE,
                text |-> [fmtNextAvailable(roundedEndMs, offMin)
                            EXCEPT !.booked = fmtTime(ivals[i + 1].startMs, offMin)],
                ms |-> SomeDate(roundedEndMs)]
          ELSE IF gapMs >= gapHours * HOUR_MS
          THEN [found |-> TRUE, text |-> fmtNextAvailable(roundedEndMs, offMin),
                ms |-> SomeDate(roundedEndMs)]
          ELSE findAvailableSlot(ivals, i + 1, now, offMin, gapHours)

\* nextAvailable of one car: [text, ms]; ms is the instant behind the text
nextAvailableOf(ivals, now, offMin, gapHours) ==
  LET bookedNow == bookedNowOf(ivals, now)
      slot == findAvailableSlot(ivals, 1, now, offMin, gapHours)
      nextBusinessOpen == roundToBusinessHours(now, offMin)
      last == ivals[Len(ivals)]
      lastRounded == roundToBusinessHours(last.endMs, offMin)
  IN IF ~(bookedNow \/ ~isBusinessHoursAt(now, offMin))
     THEN [text |-> AvailableNow, ms |-> SomeDate(now)]
     ELSE IF slot.found THEN [text |-> slot.text, ms |-> slot.ms]
     ELSE IF ~bookedNow /\ Len(ivals) = 0
     THEN [text |-> fmtNextAvailable(nextBusinessOpen, offMin),
           ms |-> SomeDate(nextBusinessOpen)]
     ELSE IF Len(ivals) > 0
     THEN [text |-> fmtNextAvailable(lastRounded, offMin), ms |-> SomeDate(lastRounded)]
     ELSE [text |-> fmtNextAvailable(nextBusinessOpen, offMin),
           ms |-> SomeDate(nextBusinessOpen)]

\* day windows whose loop starts at tomorrow
dayWindowsFromTomorrow(baseUtcMs, offMin) ==
  [i \in 1..RANGE_DAYS |->
     LET startUtcMs == localMidnightUtcMs(baseUtcMs, offMin, i)
     IN [startUtcMs |-> startUtcMs,
         endUtcMs |-> startUtcMs + DAY_MS,
         date |-> UTCDay(startUtcMs + offMin)]]

\* days[i] of the handler
dayWindows(baseUtcMs, offMin) ==
  [i \in 1..RANGE_DAYS |->
     LET startUtcMs == localMidnightUtcMs(baseUtcMs, offMin, i - 1)
     IN [startUtcMs |-> startUtcMs,
         endUtcMs |-> startUtcMs + DAY_MS,
         date |-> UTCDay(startUtcMs + offMin)]]

Tile(date, status, bookedFrom, bookedUntil, backTime, freeTime) ==
  [date |-> date, status |-> status, bookedFrom |-> bookedFrom,
   bookedUntil |-> bookedUntil, backTime |-> backTime, freeTime |-> freeTime]

tileOf(ivals, d, offMin) ==
  LET overlapsForDay ==
        SelectSeq(ivals, LAMBDA iv : overlap(iv.startMs, iv.endMs, d.startUtcMs, d.endUtcMs))
      first == overlapsForDay[1]
      bookedFrom == fmtTime(first.startsRaw, offMin)
      bookedUntil == fmtTime(first.stopsRaw, offMin)
      freesBeforeEndOfDay == first.endMs < d.endUtcMs
      roundedEndMs == roundToBusinessHours(first.endMs, offMin)
  IN IF Len(overlapsForDay) = 0
     THEN Tile(d.date, "Available", NoTime, NoTime, NoTime, NoTime)
     ELSE IF freesBeforeEndOfDay /\ roundedEndMs < d.endUtcMs
     THEN Tile(d.date, "Heads-up", bookedFrom, bookedUntil,
               fmtTime(first.stopsRaw, offMin), fmtTime(roundedEndMs, offMin))
     ELSE Tile(d.date, "Booked", bookedFrom, bookedUntil, NoTime, NoTime)

\* the rows of the fetched pages with the product each resolves to
\* (resolveProductIdFromPlanning); the rows of car 1 come first
pagesOf(rows, otherRows) ==
  [i \in 1..Len(rows) |-> [productId |-> 1, attributes |-> rows[i]]]
    \o [i \in 1..Len(otherRows) |-> [productId |-> 2, attributes |-> otherRows[i]]]

\* a grouping that pushes every planning to every car's list
intervalsByAnyProduct(pages, carById, offMin) ==
  [id \in DOMAIN carById |->
     sortIntervals(buildIntervals([i \in 1..Len(pages) |-> pages[i].attributes],
                                  carById[id], offMin))]

\* intervalsByProduct after the planning loop and the per-car sort
intervalsByProduct(pages, carById, offMin) ==
  [id \in DOMAIN carById |->
     LET mine == SelectSeq(pages, LAMBDA pl : pl.productId = id)
     IN sortIntervals(buildIntervals([i \in 1..Len(mine) |-> mine[i].attributes],
                                     carById[id], offMin))]

\* one element of outCars (with bookedNow and the instant behind nextAvailable)
outCar(ivals, days, now, offMin, gapHours) ==
  LET next == nextAvailableOf(ivals, now, offMin, gapHours)
  IN [bookedNow |-> bookedNowOf(ivals, now),
      nextAvailable |-> next.text,
      nextMs |-> next.ms,
      tiles |-> [i \in 1..Len(days) |-> tileOf(ivals, days[i], offMin)]]

\* the payload: car 1 at the top level, the other car under fleet; the
\* planning loop records nothing about a row whose timestamps do not parse
availabilityResponse(rows, c, oth, now, offMin, gapHours) ==
  LET byProduct == intervalsByProduct(pagesOf(rows, oth.plannings), <<c, oth.car>>, offMin)
      days == dayWindows(now, offMin)
      own == outCar(byProduct[1], days, now, offMin, gapHours)
  IN [variant |-> "availability",
      busy |-> <<>>,
      bookedNow |-> own.bookedNow,
      nextAvailable |-> own.nextAvailable,
      nextMs |-> own.nextMs,
      days |-> [i \in 1..Len(days) |->
                  [fromAbs |-> days[i].startUtcMs, tillAbs |-> days[i].endUtcMs,
                   date |-> days[i].date]],
      tiles |-> own.tiles,
      ivals |-> byProduct[1],
      diagnostics |-> <<>>,
      fleet |-> outCar(byProduct[2], days, now, offMin, gapHours)]

HandlerAvailability ==
  /\ pc = "idle"
  /\ resp' = availabilityResponse(plannings, car, other, nowMs, offsetMinutes,
                                  minRentableGapHours)
  /\ pc' = "done"
  /\ UNCHANGED <<plannings, car, nowMs, offsetMinutes, minRentableGapHours, stamp, instant,
                 other, config, setup,
               cache, reqs, clock, call, env>>

(***************************************************************************)
(* src/unnamed/part_000, first file (TIMEZONE_OFFSET_HOURS = 10)           *)
(***************************************************************************)
overlaps(aFrom, aTill, bFrom, bTill) == aFrom < bTill /\ aTill > bFrom

\* a parser that reads every timestamp as local time, zone suffix or not
parseBooqableToAbsAsLocal(isoLike) ==
  IF isoLike.kind \in {"zoned", "naive"} THEN SomeDate(isoLike.civil - TZ_OFFSET_MS)
  ELSE NoDate

\* explicit zone: Date.parse; naive: the digits are Brisbane local time
parseBooqableToAbs(isoLike) ==
  IF isoLike.kind = "zoned" THEN SomeDate(isoLike.civil - isoLike.off)
  ELSE IF isoLike.kind = "naive" THEN SomeDate(isoLike.civil - TZ_OFFSET_MS)
  ELSE NoDate

\* planningsJson.data mapped to {reserved_from, reserved_till, starts_at,
\* stops_at}, the rows without a reserved time dropped
mapPlannings(rows) ==
  LET mapped == [i \in 1..Len(rows) |->
                   [reserved_from |-> OrElse(rows[i].reserved_from, rows[i].starts_at),
                    reserved_till |-> OrElse(rows[i].reserved_till, rows[i].stops_at),
                    starts_at |-> rows[i].starts_at,
                    stops_at |-> rows[i].stops_at]]
  IN SelectSeq(mapped, LAMBDA p : p.reserved_from.kind # "missing"
                                  /\ p.reserved_till.kind # "missing")

\* a mapped row with its times parsed, as the handler parses them on use:
\*   from/till    parseBooqableToAbs of reserved_from / reserved_till
\*   human*       parseBooqableToAbs of starts_at || reserved_from,
\*                stops_at || reserved_till
parsedRentable(p) ==
  [from |-> parseBooqableToAbs(p.reserved_from),
   till |-> parseBooqableToAbs(p.reserved_till),
   humanFrom |-> parseBooqableToAbs(OrElse(p.starts_at, p.reserved_from)),
   humanTill |-> parseBooqableToAbs(OrElse(p.stops_at, p.reserved_till))]

\* a containment test that misses the first instant of a reservation
isBookedNowOpenStart(P, nowAbs) ==
  \E i \in 1..Len(P) :
    /\ P[i].from.ok /\ P[i].till.ok
    /\ P[i].from.t < nowAbs /\ nowAbs < P[i].till.t

isBookedNow(P, nowAbs) ==
  \E i \in 1..Len(P) :
    /\ P[i].from.ok /\ P[i].till.ok
    /\ P[i].from.t <= nowAbs /\ nowAbs < P[i].till.t

\* a loop that keeps the last start >= fromAbs it meets, not the least
RECURSIVE findLastBookingStartAbs(_, _, _)
findLastBookingStartAbs(P, fromAbs, next) ==
  IF P = <<>> THEN next
  ELSE LET p == Head(P)
           s == p.from.t
           e == p.till.t
       IN IF ~p.from.ok \/ ~p.till.ok THEN findLastBookingStartAbs(Tail(P), fromAbs, next)
          ELSE IF e <= fromAbs THEN findLastBookingStartAbs(Tail(P), fromAbs, next)
          ELSE IF s >= fromAbs
          THEN findLastBookingStartAbs(Tail(P), fromAbs, SomeDate(s))
          ELSE findLastBookingStartAbs(Tail(P), fromAbs, next)

\* the loop that keeps the least start >= fromAbs of the rows not yet over
RECURSIVE findNextBookingStartAbs(_, _, _)
findNextBookingStartAbs(P, fromAbs, next) ==
  IF P = <<>> THEN next
  ELSE LET p == Head(P)
           s == p.from.t
           e == p.till.t
       IN IF ~p.from.ok \/ ~p.till.ok THEN findNextBookingStartAbs(Tail(P), fromAbs, next)
          ELSE IF e <= fromAbs THEN findNextBookingStartAbs(Tail(P), fromAbs, next)
          ELSE IF s >= fromAbs /\ (~next.ok \/ s < next.t)
          THEN findNextBookingStartAbs(Tail(P), fromAbs, SomeDate(s))
          ELSE findNextBookingStartAbs(Tail(P), fromAbs, next)

\* map / filter / sort at the head of computeRentableStartAbs
futureIntervals(P, fromAbs) ==
  LET kept == SelectSeq(P, LAMBDA x : x.from.ok /\ x.till.ok /\ x.till.t > fromAbs)
      ivs == [i \in 1..Len(kept) |-> [start |-> kept[i].from.t, end |-> kept[i].till.t]]
  IN SortByKey(ivs, [i \in 1..Len(ivs) |-> ivs[i].start])

\* the sweep that folds the sorted intervals into busy
RECURSIVE mergeInto(_, _)
mergeInto(busy, intervals) ==
  IF intervals = <<>> THEN busy
  ELSE LET i == Head(intervals)
           last == busy[Len(busy)]
       IN IF busy = <<>>
          THEN mergeInto(<<[start |-> i.start, end |-> i.end]>>, Tail(intervals))
          ELSE IF i.start <= last.end
          THEN mergeInto([busy EXCEPT ![Len(busy)].end =
                                        IF last.end >= i.end THEN last.end ELSE i.end],
                         Tail(intervals))
          ELSE mergeInto(Append(busy, [start |-> i.start, end |-> i.end]), Tail(intervals))

\* a sweep that compares each interval with the previous input interval
\* instead of the running end of the last busy block
RECURSIVE mergeIntoPrev(_, _, _)
mergeIntoPrev(busy, intervals, prevEnd) ==
  IF intervals = <<>> THEN busy
  ELSE LET i == Head(intervals)
           last == busy[Len(busy)]
       IN IF busy = <<>>
          THEN mergeIntoPrev(<<[start |-> i.start, end |-> i.end]>>, Tail(intervals), i.end)
          ELSE IF i.start <= prevEnd
          THEN mergeIntoPrev([busy EXCEPT ![Len(busy)].end =
                                            IF last.end >= i.end THEN last.end ELSE i.end],
                             Tail(intervals), i.end)
          ELSE mergeIntoPrev(Append(busy, [start |-> i.start, end |-> i.end]),
                             Tail(intervals), i.end)

mergeBusyComparingPrevious(intervals) == mergeIntoPrev(<<>>, intervals, 0)

\* a sweep that folds only properly overlapping intervals
RECURSIVE mergeIntoStrict(_, _)
mergeIntoStrict(busy, intervals) ==
  IF intervals = <<>> THEN busy
  ELSE LET i == Head(intervals)
           last == busy[Len(busy)]
       IN IF busy = <<>>
          THEN mergeIntoStrict(<<[start |-> i.start, end |-> i.end]>>, Tail(intervals))
          ELSE IF i.start < last.end
          THEN mergeIntoStrict([busy EXCEPT ![Len(busy)].end =
                                              IF last.end >= i.end THEN last.end ELSE i.end],
                               Tail(intervals))
          ELSE mergeIntoStrict(Append(busy, [start |-> i.start, end |-> i.end]),
                               Tail(intervals))

mergeBusyStrict(intervals) == mergeIntoStrict(<<>>, intervals)

mergeBusy(intervals) == mergeInto(<<>>, intervals)

\* first loop: leave the busy block that holds the candidate
RECURSIVE leaveActive(_, _)
leaveActive(busy, candidate) ==
  IF busy = <<>> THEN candidate
  ELSE LET b == Head(busy)
       IN IF candidate >= b.start /\ candidate < b.end THEN b.end
          ELSE IF candidate < b.start THEN candidate
          ELSE leaveActive(Tail(busy), candidate)

\* a walk that takes only a gap longer than MIN_GAP_MS
RECURSIVE walkGapsLongerOnly(_, _, _)
walkGapsLongerOnly(busy, candidate, minGapMs) ==
  IF busy = <<>> THEN candidate
  ELSE LET b == Head(busy)
           gap == b.start - candidate
       IN IF candidate < b.start
          THEN IF gap > minGapMs THEN candidate
               ELSE walkGapsLongerOnly(Tail(busy), b.end, minGapMs)
          ELSE IF candidate >= b.start /\ candidate < b.end
          THEN walkGapsLongerOnly(Tail(busy), b.end, minGapMs)
          ELSE walkGapsLongerOnly(Tail(busy), candidate, minGapMs)

\* second loop: walk the gaps until one is at least MIN_GAP_MS long
RECURSIVE walkGaps(_, _, _)
walkGaps(busy, candidate, minGapMs) ==
  IF busy = <<>> THEN candidate
  ELSE LET b == Head(busy)
           gap == b.start - candidate
       IN IF candidate < b.start
          THEN IF gap >= minGapMs THEN candidate
               ELSE walkGaps(Tail(busy), b.end, minGapMs)
          ELSE IF candidate >= b.start /\ candidate < b.end
          THEN walkGaps(Tail(busy), b.end, minGapMs)
          ELSE walkGaps(Tail(busy), candidate, minGapMs)

computeRentableStartAbs(P, fromAbs) ==
  LET intervals == futureIntervals(P, fromAbs)
      busy == mergeBusy(intervals)
  IN IF Len(intervals) = 0 THEN fromAbs
     ELSE walkGaps(busy, leaveActive(busy, fromAbs), MIN_GAP_MS)

fmtTimeFromAbs(absMs, tzMs) == HHMM(absMs + tzMs)
fmtDayTimeFromAbs(absMs, tzMs) == DayTimeText(absMs + tzMs)

\* fmtTime(isoLike): "" when the string does not parse
fmtTimeOf(date, tzMs) == IF date.ok THEN fmtTimeFromAbs(date.t, tzMs) ELSE NoTime

\* hourInTz(isoLike): 0 when the string does not parse
hourInTz(date, tzMs) == IF date.ok THEN UTCHours(date.t + tzMs) ELSE 0

\* days[i]: addDays(todayInTz, i) and dayBoundsAbs (the server clock is UTC)
dayBounds(nowAbs, tzMs, rangeDays) ==
  [i \in 1..rangeDays |->
     LET d == UTCDay(nowAbs + tzMs) + (i - 1)
     IN [fromAbs |-> d * DAY_MS - tzMs, tillAbs |-> (d + 1) * DAY_MS - tzMs, date |-> d]]

\* an answer that is null when no reservation ends after now
nextAvailableRentableOrNull(P, nowAbs) ==
  LET rentableAbs == computeRentableStartAbs(P, nowAbs)
  IN IF Len(futureIntervals(P, nowAbs)) = 0
     THEN [text |-> NullAvailable, ms |-> NoDate]
     ELSE [text |-> fmtDayTimeFromAbs(rentableAbs, TZ_OFFSET_MS), ms |-> SomeDate(rentableAbs)]

nextAvailableRentable(P, nowAbs) ==
  LET bookedNow == isBookedNow(P, nowAbs)
      nextStartAbs == findNextBookingStartAbs(P, nowAbs, NoDate)
      rentableAbs == computeRentableStartAbs(P, nowAbs)
  IN IF bookedNow
     THEN [text |-> fmtDayTimeFromAbs(rentableAbs, TZ_OFFSET_MS), ms |-> SomeDate(rentableAbs)]
     ELSE IF ~nextStartAbs.ok \/ nextStartAbs.t - nowAbs >= MIN_GAP_MS
     THEN [text |-> AvailableNow, ms |-> SomeDate(nowAbs)]
     ELSE [text |-> fmtDayTimeFromAbs(rentableAbs, TZ_OFFSET_MS), ms |-> SomeDate(rentableAbs)]

\* the decision tree of days.map(day => ...)
dayStatus(P, day, tzMs, cutoffHour) ==
  LET dayOverlaps ==
        SelectSeq(P, LAMBDA p : p.from.ok /\ p.till.ok
                                /\ overlaps(p.from.t, p.till.t, day.fromAbs, day.tillAbs))
      startsTodayRows ==
        SelectSeq(dayOverlaps, LAMBDA p : p.from.t >= day.fromAbs /\ p.from.t < day.tillAbs)
      startsToday ==
        SortByKey(startsTodayRows, [i \in 1..Len(startsTodayRows) |-> startsTodayRows[i].from.t])
      carryRows ==
        SelectSeq(dayOverlaps, LAMBDA p : p.from.t < day.fromAbs /\ p.till.t <= day.tillAbs)
      carryReturn ==
        SortByKey(carryRows, [i \in 1..Len(carryRows) |-> carryRows[i].till.t])
      s == startsToday[1]
      c == carryReturn[1]
      backTime == fmtTimeOf(c.humanTill, tzMs)
      freeTime == fmtTimeOf(c.till, tzMs)
  IN IF Len(dayOverlaps) = 0
     THEN Tile(day.date, "Available", NoTime, NoTime, NoTime, NoTime)
     ELSE IF Len(startsToday) > 0
     THEN Tile(day.date, "Booked", fmtTimeOf(s.humanFrom, tzMs), fmtTimeOf(s.humanTill, tzMs),
               NoTime, NoTime)
     ELSE IF Len(carryReturn) > 0
     THEN IF hourInTz(c.till, tzMs) < cutoffHour
          THEN Tile(day.date, "Available", NoTime, NoTime, NoTime, NoTime)
          ELSE Tile(day.date, "Heads-up", NoTime, NoTime, backTime,
                    IF backTime = freeTime THEN NoTime ELSE freeTime)
     ELSE Tile(day.date, "Booked", NoTime, NoTime, NoTime, NoTime)

\* one element of carsOut: the car's own /plannings request (filter[item_id])
\* and what is computed from it
rentableCar(rows, nowAbs) ==
  LET mapped == mapPlannings(rows)
      P == [i \in 1..Len(mapped) |-> parsedRentable(mapped[i])]
      days == dayBounds(nowAbs, TZ_OFFSET_MS, DEFAULT_DAYS)
      next == nextAvailableRentable(P, nowAbs)
  IN [P |-> P,
      busy |-> mergeBusy(futureIntervals(P, nowAbs)),
      bookedNow |-> isBookedNow(P, nowAbs),
      nextAvailable |-> next.text,
      nextMs |-> next.ms,
      tiles |-> [i \in 1..Len(days) |->
                   dayStatus(P, days[i], TZ_OFFSET_MS, EARLY_CUTOFF_HOUR)]]

\* the payload: car 1 at the top level, the other car under fleet; nothing
\* is recorded about a row whose timestamps do not parse
rentableResponse(rows, oth, nowAbs) ==
  LET own == rentableCar(rows, nowAbs)
      theirs == rentableCar(oth.plannings, nowAbs)
  IN [variant |-> "rentable",
      busy |-> own.busy,
      bookedNow |-> own.bookedNow,
      nextAvailable |-> own.nextAvailable,
      nextMs |-> own.nextMs,
      days |-> dayBounds(nowAbs, TZ_OFFSET_MS, DEFAULT_DAYS),
      tiles |-> own.tiles,
      ivals |-> own.P,
      diagnostics |-> <<>>,
      fleet |-> [bookedNow |-> theirs.bookedNow, nextAvailable |-> theirs.nextAvailable,
                 nextMs |-> theirs.nextMs, tiles |-> theirs.tiles]]

HandlerRentable ==
  /\ pc = "idle"
  /\ resp' = rentableResponse(plannings, other, nowMs)
  /\ pc' = "done"
  /\ UNCHANGED <<plannings, car, nowMs, offsetMinutes, minRentableGapHours, stamp, instant,
                 other, config, setup,
               cache, reqs, clock, call, env>>

(***************************************************************************)
(* src/unnamed/part_008, second file (TIMEZONE_OFFSET_HOURS = 0).  Its     *)
(* merge sweep, its two candidate loops and its day tree are the text of   *)
(* part_000; only the parsing (new Date(iso).getTime()) differs.           *)
(***************************************************************************)
\* new Date(iso).getTime() on a server whose clock is UTC; NaN as NoDate
newDateGetTime(iso) ==
  IF iso.kind = "zoned" THEN SomeDate(iso.civil - iso.off)
  ELSE IF iso.kind = "naive" THEN SomeDate(iso.civil)
  ELSE NoDate

parsedRealistic(p) ==
  [from |-> newDateGetTime(p.reserved_from),
   till |-> newDateGetTime(p.reserved_till),
   humanFrom |-> newDateGetTime(OrElse(p.starts_at, p.reserved_from)),
   humanTill |-> newDateGetTime(OrElse(p.stops_at, p.reserved_till))]

\* null (NoDate) when nothing ends after nowAbs, else the ISO string of the candidate
computeRealisticNextAvailable(P, nowAbs) ==
  LET future == futureIntervals(P, nowAbs)
      busy == mergeBusy(future)
      candidate == walkGaps(busy, leaveActive(busy, nowAbs), MIN_GAP_MS)
  IN IF Len(future) = 0 THEN BadStamp ELSE Zoned(candidate, 0)

realisticCar(rows, nowAbs) ==
  LET mapped == mapPlannings(rows)
      P == [i \in 1..Len(mapped) |-> parsedRealistic(mapped[i])]
      days == dayBounds(nowAbs, REALISTIC_TZ_OFFSET_MS, DEFAULT_DAYS)
      realisticIso == computeRealisticNextAvailable(P, nowAbs)
      t == newDateGetTime(realisticIso)
  IN [P |-> P,
      busy |-> mergeBusy(futureIntervals(P, nowAbs)),
      bookedNow |-> FALSE,  \* this handler does not compute it
      nextAvailable |-> IF t.ok
                        THEN fmtDayTimeFromAbs(t.t, REALISTIC_TZ_OFFSET_MS)
                        ELSE NullAvailable,
      nextMs |-> t,
      tiles |-> [i \in 1..Len(days) |->
                   dayStatus(P, days[i], REALISTIC_TZ_OFFSET_MS, EARLY_CUTOFF_HOUR)]]

realisticResponse(rows, oth, nowAbs) ==
  LET own == realisticCar(rows, nowAbs)
      theirs == realisticCar(oth.plannings, nowAbs)
  IN [variant |-> "realistic",
      busy |-> own.busy,
      bookedNow |-> own.bookedNow,
      nextAvailable |-> own.nextAvailable,
      nextMs |-> own.nextMs,
      days |-> dayBounds(nowAbs, REALISTIC_TZ_OFFSET_MS, DEFAULT_DAYS),
      tiles |-> own.tiles,
      ivals |-> own.P,
      diagnostics |-> <<>>,
      fleet |-> [bookedNow |-> theirs.bookedNow, nextAvailable |-> theirs.nextAvailable,
                 nextMs |-> theirs.nextMs, tiles |-> theirs.tiles]]

HandlerRealistic ==
  /\ pc = "idle"
  /\ resp' = realisticResponse(plannings, other, nowMs)
  /\ pc' = "done"
  /\ UNCHANGED <<plannings, car, nowMs, offsetMinutes, minRentableGapHours, stamp, instant,
                 other, config, setup,
               cache, reqs, clock, call, env>>

(***************************************************************************)
(* src/unnamed/part_000, second file: the parser that honours a zone       *)
(* suffix and reads the other strings as company local time.               *)
(***************************************************************************)
hasOffset(str) == str.kind = "zoned"

parseBooqableDateWithOffset(str, accountOffsetMinutes) ==
  IF str.kind \in {"missing", "bad"} THEN NoDate
  ELSE IF hasOffset(str) THEN SomeDate(str.civil - str.off)
  ELSE SomeDate(str.civil - accountOffsetMinutes)

(***************************************************************************)
(* A call of roundToBusinessHours on the instant nowMs.                    *)
(***************************************************************************)
RoundToBusinessHours ==
  /\ pc = "idle"
  /\ instant' = [by |-> "roundToBusinessHours",
                 date |-> SomeDate(roundToBusinessHours(nowMs, offsetMinutes))]
  /\ pc' = "rounded"
  /\ UNCHANGED <<plannings, car, nowMs, offsetMinutes, minRentableGapHours, resp, stamp,
                 other, config, setup, cache, reqs, clock, call, env>>

(***************************************************************************)
(* Calls of the three timestamp parsers on one string.                     *)
(***************************************************************************)
ParseBooqableToAbs ==
  /\ pc = "idle"
  /\ instant' = [by |-> "parseBooqableToAbs", date |-> parseBooqableToAbs(stamp)]
  /\ pc' = "parsed"
  /\ UNCHANGED <<plannings, car, nowMs, offsetMinutes, minRentableGapHours, resp, stamp,
               other, config, setup,
               cache, reqs, clock, call, env>>

ParseBooqableDate ==
  /\ pc = "idle"
  /\ instant' = [by |-> "parseBooqableDate", date |-> parseBooqableDate(stamp, offsetMinutes)]
  /\ pc' = "parsed"
  /\ UNCHANGED <<plannings, car, nowMs, offsetMinutes, minRentableGapHours, resp, stamp,
               other, config, setup,
               cache, reqs, clock, call, env>>

ParseBooqableDateWithOffset ==
  /\ pc = "idle"
  /\ instant' = [by |-> "parseBooqableDateWithOffset",
                 date |-> parseBooqableDateWithOffset(stamp, offsetMinutes)]
  /\ pc' = "parsed"
  /\ UNCHANGED <<plannings, car, nowMs, offsetMinutes, minRentableGapHours, resp, stamp,
               other, config, setup,
               cache, reqs, clock, call, env>>

(***************************************************************************)
(* Reading the zone offset.  A configured value is the record [kind, n]:   *)
(* unset (the variable or the settings field is absent), empty (""),       *)
(* invalid (a text that is no number) or number n.  The offset read is     *)
(* [ok, t]; ok = FALSE is NaN.                                             *)
(***************************************************************************)
Unset == [kind |-> "unset", n |-> 0]
Empty == [kind |-> "empty", n |-> 0]
Invalid == [kind |-> "invalid", n |-> 0]
Configured(n) == [kind |-> "number", n |-> n]

\* Number(v ?? dflt): the default for an absent variable only, Number("") is
\* 0, Number of a text that is no number is NaN
numberOrDefault(v, dflt) ==
  IF v.kind = "unset" THEN SomeDate(dflt)
  ELSE IF v.kind = "empty" THEN SomeDate(0)
  ELSE IF v.kind = "invalid" THEN NoDate
  ELSE SomeDate(v.n)

\* v || 0 on the settings field (a number): 0 for an absent field, for 0,
\* for NaN and for ""
valueOrZero(v) == IF v.kind = "number" THEN SomeDate(v.n) ELSE SomeDate(0)

\* hours * 60 * 60 * 1000; NaN stays NaN
offsetMsOf(hours) == IF hours.ok THEN SomeDate(hours.t * HOUR_MS) ELSE NoDate

\* part_000: the module's constants TZ_OFFSET_HOURS, TZ_OFFSET_MS
LoadRentable ==
  /\ pc = "idle"
  /\ setup' = [status |-> "ready", by |-> "rentable",
               offset |-> offsetMsOf(numberOrDefault(config, TZ_OFFSET_HOURS))]
  /\ pc' = "configured"
  /\ UNCHANGED <<plannings, car, nowMs, offsetMinutes, minRentableGapHours, resp,
                 stamp, instant, other, config,
               cache, reqs, clock, call, env>>

\* part_008: the same two lines with the default 0
LoadRealistic ==
  /\ pc = "idle"
  /\ setup' = [status |-> "ready", by |-> "realistic",
               offset |-> offsetMsOf(numberOrDefault(config, REALISTIC_TZ_OFFSET_HOURS))]
  /\ pc' = "configured"
  /\ UNCHANGED <<plannings, car, nowMs, offsetMinutes, minRentableGapHours, resp,
                 stamp, instant, other, config,
               cache, reqs, clock, call, env>>

\* availability.js: settings.data.attributes.defaults.timezone_offset || 0
ReadSettings ==
  /\ pc = "idle"
  /\ setup' = [status |-> "ready", by |-> "availability", offset |-> valueOrZero(config)]
  /\ pc' = "configured"
  /\ UNCHANGED <<plannings, car, nowMs, offsetMinutes, minRentableGapHours, resp,
                 stamp, instant, other, config,
               cache, reqs, clock, call, env>>

(***************************************************************************)
(* The requests the model serves.                                          *)
(***************************************************************************)
\* upstream row of a reservation picked up at civil time p and returned at r:
\* reserved_from / reserved_till carry the product's buffers
PlanningRow(p, r, c) ==
  [starts_at |-> Naive(p), stops_at |-> Naive(r),
   reserved_from |-> Naive(p - c.buffer_before_s),
   reserved_till |-> Naive(r + c.buffer_after_s)]

CarChoices ==
  {[buffer_before_s |-> 0, buffer_after_s |-> 0],
   [buffer_before_s |-> 30, buffer_after_s |-> 15]}

\* day 1 is today
PickupChoices == {At(0, 22, 0), At(1, 9, 0), At(1, 13, 0), At(1, 16, 59), At(1, 17, 0), At(2, 0, 0)}
DurationChoices == {0, 2 * HOUR_MS, 4 * HOUR_MS}
NowChoices == {At(1, 7, 0), At(1, 10, 0), At(1, 13, 0), At(1, 19, 0)}

RowChoices(c) == {PlanningRow(p, p + d, c) : p \in PickupChoices, d \in DurationChoices}

\* a fleet of one car
NoOther == [car |-> [buffer_before_s |-> 0, buffer_after_s |-> 0], plannings |-> <<>>]

\* the configuration has not been read
NoSetup == [status |-> "none", by |-> "none", offset |-> NoDate]

\* a response body: the payload of a classification, an error object, or
\* (in _cache only) null
NullPayload ==
  [kind |-> "null", bookedNow |-> FALSE, nextAvailable |-> NullAvailable, tiles |-> <<>>]
ErrorBody ==
  [kind |-> "error", bookedNow |-> FALSE, nextAvailable |-> NullAvailable, tiles |-> <<>>]

\* let _cache = { at: 0, payload: null }
EmptyCache == [at |-> 0, payload |-> NullPayload]

\* no booqable() call has been made
NoCall ==
  [n |-> 0, path |-> "none", attempt |-> 0, waits |-> <<>>, statuses |-> <<>>,
   state |-> "none", answer |-> 0]

\* a process that has served nothing yet
Quiet == cache = EmptyCache /\ reqs = <<>> /\ clock = 0 /\ call = NoCall /\ env = "set"

\* no parser has been called
NoInstant == [by |-> "none", date |-> NoDate]

NoResp ==
  [variant |-> "none", busy |-> <<>>, bookedNow |-> FALSE,
   nextAvailable |-> NullAvailable, nextMs |-> NoDate, days |-> <<>>, tiles |-> <<>>,
   ivals |-> <<>>, diagnostics |-> <<>>,
   fleet |-> [bookedNow |-> FALSE, nextAvailable |-> NullAvailable, nextMs |-> NoDate,
              tiles |-> <<>>]]

(***************************************************************************)
(* api/availability.js as a process: the module-level _cache and the       *)
(* requests it serves.  A request runs from its arrival to its first       *)
(* await in one step and, when upstream has answered, from there to        *)
(* sendJson in one step; other requests and the clock move in between.     *)
(* The clock counts milliseconds.                                          *)
(***************************************************************************)
CACHE_MS == 15000
MINUTE_MS == 60000
TickMs == 5000

\* Date.now() read at clock value ms, in the time unit of the classification
dateNow(ms) == nowMs + ms \div MINUTE_MS

\* a handler that answers a miss with the payload it finds in _cache
payloadOfKept(rows, ms) ==
  IF cache.payload # NullPayload THEN cache.payload
  ELSE LET r == availabilityResponse(rows, car, other, dateNow(ms), offsetMinutes,
                                     minRentableGapHours)
       IN [kind |-> "payload", bookedNow |-> r.bookedNow, nextAvailable |-> r.nextAvailable,
           tiles |-> r.tiles]

\* the payload the handler builds from the rows it fetched
payloadOf(rows, ms) ==
  LET r == availabilityResponse(rows, car, other, dateNow(ms), offsetMinutes,
                                minRentableGapHours)
  IN [kind |-> "payload", bookedNow |-> r.bookedNow, nextAvailable |-> r.nextAvailable,
      tiles |-> r.tiles]

\* sendJson(res, status, body, cacheSeconds)
sendJson(status, body, cacheSeconds) ==
  [status |-> status, body |-> body,
   cacheControl |-> IF cacheSeconds > 0 THEN "s-maxage" ELSE "no-store"]

NoAnswer == [status |-> 0, body |-> NullPayload, cacheControl |-> "none"]

\* a request: began is its `now`, found the _cache it read on arrival, saw
\* the upstream rows its answer stands for (those upstream held when it was
\* answered from the cache, those it fetched otherwise), at the clock when
\* it stored a payload (-1 when it stored none)
Request(state, began, found, hit, saw, at, res) ==
  [pc |-> state, began |-> began, found |-> found, hit |-> hit, saw |-> saw, at |-> at,
   res |-> res]

\* a store that keeps the time of the previous store
storedKeepingTime(ms, payload) == [at |-> cache.at, payload |-> payload]

\* _cache = { at: Date.now(), payload }
stored(ms, payload) == [at |-> ms, payload |-> payload]

\* a test that serves the cached payload up to and including CACHE_MS
cacheIsFreshInclusive(now) == cache.payload # NullPayload /\ now - cache.at <= CACHE_MS

\* _cache.payload && now - _cache.at < CACHE_MS
cacheIsFresh(now) == cache.payload # NullPayload /\ now - cache.at < CACHE_MS

\* a request arrives and is answered from _cache
CacheHit ==
  /\ Len(reqs) < MaxRequests
  /\ cacheIsFresh(clock)
  /\ reqs' = Append(reqs, Request("answered", clock, cache, TRUE, plannings, -1,
                                  sendJson(200, cache.payload, 10)))
  /\ UNCHANGED <<plannings, car, nowMs, offsetMinutes, minRentableGapHours, pc, resp, stamp,
                 instant, other, config, setup, cache, clock, call, env>>

\* a request arrives, the cache does not serve it, a credential is missing
MissingEnv ==
  /\ Len(reqs) < MaxRequests
  /\ ~cacheIsFresh(clock)
  /\ env # "set"
  /\ reqs' = Append(reqs, Request("answered", clock, cache, FALSE, plannings, -1,
                                  sendJson(500, ErrorBody, 0)))
  /\ UNCHANGED <<plannings, car, nowMs, offsetMinutes, minRentableGapHours, pc, resp, stamp,
                 instant, other, config, setup, cache, clock, call, env>>

\* a request arrives and goes to upstream
BeginFetch ==
  /\ Len(reqs) < MaxRequests
  /\ ~cacheIsFresh(clock)
  /\ env = "set"
  /\ reqs' = Append(reqs, Request("fetching", clock, cache, FALSE, <<>>, -1, NoAnswer))
  /\ UNCHANGED <<plannings, car, nowMs, offsetMinutes, minRentableGapHours, pc, resp, stamp,
                 instant, other, config, setup, cache, clock, call, env>>

\* upstream has answered: build the payload, store it, send it
StoreAndSend ==
  \E r \in 1..Len(reqs) :
    /\ reqs[r].pc = "fetching"
    /\ cache' = stored(clock, payloadOf(plannings, clock))
    /\ reqs' = [reqs EXCEPT ![r] = Request("answered", reqs[r].began, reqs[r].found, FALSE,
                                            plannings, clock,
                                            sendJson(200, payloadOf(plannings, clock), 10))]
    /\ UNCHANGED <<plannings, car, nowMs, offsetMinutes, minRentableGapHours, pc, resp, stamp,
                   instant, other, config, setup, clock, call, env>>

\* booqable() or the processing threw: the catch block answers
CatchAndSend ==
  \E r \in 1..Len(reqs) :
    /\ reqs[r].pc = "fetching"
    /\ reqs' = [reqs EXCEPT ![r] = Request("answered", reqs[r].began, reqs[r].found, FALSE,
                                            plannings, -1, sendJson(500, ErrorBody, 0))]
    /\ UNCHANGED <<plannings, car, nowMs, offsetMinutes, minRentableGapHours, pc, resp, stamp,
                   instant, other, config, setup, cache, clock, call, env>>

\* time passes
Tick ==
  /\ clock < MaxClockTicks * TickMs
  /\ clock' = clock + TickMs
  /\ UNCHANGED <<plannings, car, nowMs, offsetMinutes, minRentableGapHours, pc, resp, stamp,
                 instant, other, config, setup, cache, reqs, call, env>>

\* the reservations change upstream
CacheRowLists ==
  {<<>>, <<PlanningRow(At(1, 9, 0), At(1, 11, 0), [buffer_before_s |-> 0, buffer_after_s |-> 0])>>}

UpstreamChanges ==
  /\ plannings' \in CacheRowLists \ {plannings}
  /\ UNCHANGED <<car, nowMs, offsetMinutes, minRentableGapHours, pc, resp, stamp,
                 instant, other, config, setup, cache, reqs, clock, call, env>>

InitCache ==
  /\ car = [buffer_before_s |-> 0, buffer_after_s |-> 0]
  /\ plannings \in CacheRowLists
  /\ offsetMinutes = TZ_OFFSET_MS
  /\ nowMs = At(1, 10, 0) - offsetMinutes
  /\ minRentableGapHours = MIN_RENTABLE_GAP_HOURS_DEFAULT
  /\ pc = "idle"
  /\ resp = NoResp
  /\ stamp = MissingStamp
  /\ instant = NoInstant
  /\ other = NoOther
  /\ config = Unset
  /\ setup = NoSetup
  /\ cache = EmptyCache
  /\ reqs = <<>>
  /\ clock = 0
  /\ call = NoCall
  /\ env \in {"set", "missing"}

NextCache ==
  \/ CacheHit \/ MissingEnv \/ BeginFetch \/ StoreAndSend \/ CatchAndSend
  \/ Tick \/ UpstreamChanges

SpecCache == InitCache /\ [][NextCache]_vars

(***************************************************************************)
(* booqable(path, attempt) of api/availability.js: the calls one request   *)
(* makes to upstream, one after the other.  call.n counts the calls of the *)
(* request, call.attempt is the parameter attempt of the running           *)
(* invocation, call.statuses the response statuses the call has seen (0    *)
(* for a fetch that rejected) and call.waits the sleeps it has made.       *)
(***************************************************************************)
RETRY_LIMIT == 7
RETRY_BASE_MS == 500

\* the statuses upstream answers with; 0 stands for a rejected fetch
Statuses == {200, 429, 404, 500, 0}

\* r.ok
ok(status) == status >= 200 /\ status <= 299

\* the path of the n-th call of a request: settings, products, plannings
pathOf(n) == IF n = 1 THEN "/settings/current" ELSE IF n = 2 THEN "/products" ELSE "/plannings"

\* a retry test that allows one more attempt
shouldRetryOnceMore(status, attempt) == status = 429 /\ attempt < RETRY_LIMIT + 1

\* r.status === 429 && attempt < 7
shouldRetry(status, attempt) == status = 429 /\ attempt < RETRY_LIMIT

\* 500 * Math.pow(2, attempt)
waitOf(attempt) == RETRY_BASE_MS * 2^attempt

\* the handler calls booqable(path): attempt = 0, fetch is awaited
BooqableCall ==
  /\ call.state \in {"none", "returned"}
  /\ call.n < MaxCalls
  /\ call' = [n |-> call.n + 1, path |-> pathOf(call.n + 1), attempt |-> 0, waits |-> <<>>,
              statuses |-> <<>>, state |-> "fetching", answer |-> 0]
  /\ UNCHANGED <<plannings, car, nowMs, offsetMinutes, minRentableGapHours, pc, resp, stamp,
                 instant, other, config, setup, cache, reqs, clock, env>>

\* the fetch answered 429 and the call sleeps before it tries again
BooqableRetry ==
  /\ call.state = "fetching"
  /\ shouldRetry(429, call.attempt)
  /\ call' = [call EXCEPT !.statuses = Append(@, 429),
                          !.waits = Append(@, waitOf(call.attempt)),
                          !.state = "sleeping"]
  /\ UNCHANGED <<plannings, car, nowMs, offsetMinutes, minRentableGapHours, pc, resp, stamp,
                 instant, other, config, setup, cache, reqs, clock, env>>

\* the sleep is over: return booqable(path, attempt + 1)
BooqableAgain ==
  /\ call.state = "sleeping"
  /\ call' = [call EXCEPT !.attempt = @ + 1, !.state = "fetching"]
  /\ UNCHANGED <<plannings, car, nowMs, offsetMinutes, minRentableGapHours, pc, resp, stamp,
                 instant, other, config, setup, cache, reqs, clock, env>>

\* the fetch rejected or answered a status that is neither retried nor ok:
\* the call throws and the catch block of the handler answers 500
BooqableThrow ==
  /\ call.state = "fetching"
  /\ \E status \in Statuses :
       /\ ~shouldRetry(status, call.attempt)
       /\ ~ok(status)
       /\ call' = [call EXCEPT !.statuses = Append(@, status), !.state = "thrown",
                               !.answer = 500]
  /\ UNCHANGED <<plannings, car, nowMs, offsetMinutes, minRentableGapHours, pc, resp, stamp,
                 instant, other, config, setup, cache, reqs, clock, env>>

\* the fetch answered an ok status: return r.json(), which gives the
\* document or throws on a body that is not JSON
BooqableReturn ==
  /\ call.state = "fetching"
  /\ \E status \in Statuses, json \in BOOLEAN :
       /\ ~shouldRetry(status, call.attempt)
       /\ ok(status)
       /\ call' = [call EXCEPT !.statuses = Append(@, status),
                               !.state = IF json THEN "returned" ELSE "thrown",
                               !.answer = IF json THEN 0 ELSE 500]
  /\ UNCHANGED <<plannings, car, nowMs, offsetMinutes, minRentableGapHours, pc, resp, stamp,
                 instant, other, config, setup, cache, reqs, clock, env>>

InitRetry ==
  /\ car \in CarChoices
  /\ plannings = <<>>
  /\ offsetMinutes = TZ_OFFSET_MS
  /\ nowMs = At(1, 10, 0) - offsetMinutes
  /\ minRentableGapHours = MIN_RENTABLE_GAP_HOURS_DEFAULT
  /\ pc = "idle"
  /\ resp = NoResp
  /\ stamp = MissingStamp
  /\ instant = NoInstant
  /\ other = NoOther
  /\ config = Unset
  /\ setup = NoSetup
  /\ Quiet

NextRetry ==
  BooqableCall \/ BooqableRetry \/ BooqableAgain \/ BooqableThrow \/ BooqableReturn

SpecRetry == InitRetry /\ [][NextRetry]_vars

\* fetch settles (it resolves or rejects) and the timer of sleep fires, so
\* a step of the call that can be taken is taken
SpecRetryFair == SpecRetry /\ WF_vars(NextRetry)

Init ==
  /\ car \in CarChoices
  /\ plannings \in UNION {[1..n -> RowChoices(car)] : n \in 0..MaxPlannings}
  /\ offsetMinutes = TZ_OFFSET_MS
  /\ nowMs \in {n - offsetMinutes : n \in NowChoices}
  /\ minRentableGapHours = MIN_RENTABLE_GAP_HOURS_DEFAULT
  /\ pc = "idle"
  /\ resp = NoResp
  /\ stamp = MissingStamp
  /\ instant = NoInstant
  /\ other = NoOther
  /\ config = Unset
  /\ setup = NoSetup
  /\ Quiet

Next == HandlerAvailability \/ HandlerRentable \/ HandlerRealistic

Spec == Init /\ [][Next]_vars

\* requests whose reservations lie on a one-hour grid, for the merge sweep
MergeTimeChoices == {At(1, 12, 0), At(1, 13, 0), At(1, 14, 0), At(1, 15, 0)}
MergeRowChoices ==
  {PlanningRow(w[1], w[2], [buffer_before_s |-> 0, buffer_after_s |-> 0]) :
     w \in {v \in MergeTimeChoices \X MergeTimeChoices : v[1] <= v[2]}}

InitMerge ==
  /\ car = [buffer_before_s |-> 0, buffer_after_s |-> 0]
  /\ plannings \in UNION {[1..n -> MergeRowChoices] : n \in 0..MaxMergeInputs}
  /\ offsetMinutes = TZ_OFFSET_MS
  /\ nowMs \in {At(1, 10, 0) - offsetMinutes, At(1, 13, 0) - offsetMinutes}
  /\ minRentableGapHours = MIN_RENTABLE_GAP_HOURS_DEFAULT
  /\ pc = "idle"
  /\ resp = NoResp
  /\ stamp = MissingStamp
  /\ instant = NoInstant
  /\ other = NoOther
  /\ config = Unset
  /\ setup = NoSetup
  /\ Quiet

SpecMerge == InitMerge /\ [][Next]_vars

\* requests for the day tiles: <<pickup, return>> in civil time, day 1 is today
TileRowTimes ==
  {<<At(0, 20, 0), At(0, 23, 50)>>,   \* returned last night
   <<At(0, 22, 0), At(1, 2, 0)>>,     \* carried over, back at 02:00
   <<At(0, 22, 0), At(1, 5, 50)>>,    \* carried over, back at 05:50
   <<At(0, 22, 0), At(1, 10, 0)>>,    \* carried over, back at 10:00
   <<At(0, 22, 0), At(1, 18, 30)>>,   \* carried over, back at 18:30
   <<At(0, 22, 0), At(1, 23, 45)>>,   \* carried over, back at 23:45
   <<At(0, 22, 0), At(2, 10, 0)>>,    \* out for the whole of today
   <<At(1, 0, 10), At(1, 8, 0)>>,     \* picked up just after midnight
   <<At(1, 9, 0), At(1, 11, 0)>>,
   <<At(1, 11, 30), At(1, 14, 0)>>,
   <<At(1, 13, 0), At(2, 9, 0)>>,     \* picked up today, back tomorrow
   <<At(1, 20, 0), At(1, 23, 50)>>,   \* back just before midnight
   <<At(2, 0, 10), At(2, 8, 0)>>,     \* picked up just after tomorrow's midnight
   <<At(2, 12, 0), At(4, 12, 0)>>}

TileCarChoices ==
  {[buffer_before_s |-> 0, buffer_after_s |-> 0],
   [buffer_before_s |-> 15, buffer_after_s |-> 15]}

InitTiles ==
  /\ car \in TileCarChoices
  /\ plannings \in UNION {[1..n -> {PlanningRow(w[1], w[2], car) : w \in TileRowTimes}] :
                            n \in 0..MaxTileRows}
  /\ offsetMinutes = TZ_OFFSET_MS
  /\ nowMs = At(1, 10, 0) - offsetMinutes
  /\ minRentableGapHours = MIN_RENTABLE_GAP_HOURS_DEFAULT
  /\ pc = "idle"
  /\ resp = NoResp
  /\ stamp = MissingStamp
  /\ instant = NoInstant
  /\ other = NoOther
  /\ config = Unset
  /\ setup = NoSetup
  /\ Quiet

SpecTiles == InitTiles /\ [][Next]_vars

\* timestamp strings for the parsers: civil times with and without a zone
\* suffix (Z is the suffix +00:00), an unparseable string, an absent one
StampCivils ==
  {At(d, hm[1], hm[2]) : d \in 0..MaxStampDays, hm \in {<<0, 0>>, <<9, 30>>, <<23, 59>>}}
StampOffsets == {0, 600, -300, 330}
StampChoices ==
  {Naive(c) : c \in StampCivils}
    \cup {Zoned(c, o) : c \in StampCivils, o \in StampOffsets}
    \cup {BadStamp, MissingStamp}

InitParse ==
  /\ car = [buffer_before_s |-> 0, buffer_after_s |-> 0]
  /\ plannings = <<>>
  /\ offsetMinutes \in {0, 600, -300}
  /\ nowMs = At(1, 10, 0)
  /\ minRentableGapHours = MIN_RENTABLE_GAP_HOURS_DEFAULT
  /\ pc = "idle"
  /\ resp = NoResp
  /\ stamp \in StampChoices
  /\ instant = NoInstant
  /\ other = NoOther
  /\ config = Unset
  /\ setup = NoSetup
  /\ Quiet

NextParse == ParseBooqableToAbs \/ ParseBooqableDate \/ ParseBooqableDateWithOffset

SpecParse == InitParse /\ [][NextParse]_vars

\* requests for a fleet of two cars, each with its own buffers and rows
FleetRowTimes ==
  {<<At(0, 22, 0), At(1, 10, 30)>>,
   <<At(1, 13, 0), At(1, 17, 0)>>}

FleetRows(c) ==
  UNION {[1..n -> {PlanningRow(w[1], w[2], c) : w \in FleetRowTimes}] : n \in 0..MaxFleetRows}

FleetCars ==
  UNION {{[car |-> c, plannings |-> rows] : rows \in FleetRows(c)} : c \in CarChoices}

InitFleet ==
  /\ \E own \in FleetCars : car = own.car /\ plannings = own.plannings
  /\ other \in FleetCars
  /\ offsetMinutes = TZ_OFFSET_MS
  /\ nowMs = At(1, 10, 0) - offsetMinutes
  /\ minRentableGapHours = MIN_RENTABLE_GAP_HOURS_DEFAULT
  /\ pc = "idle"
  /\ resp = NoResp
  /\ stamp = MissingStamp
  /\ instant = NoInstant
  /\ config = Unset
  /\ setup = NoSetup
  /\ Quiet

SpecFleet == InitFleet /\ [][Next]_vars

\* requests with damaged rows: a pickup or return that does not parse, with
\* or without a usable reserved time beside it, and rows that carry no
\* reserved times at all
FaultRowTimes ==
  {<<At(0, 22, 0), At(1, 10, 30)>>,
   <<At(1, 13, 0), At(1, 17, 0)>>}

Damaged(row) ==
  {row,
   [row EXCEPT !.starts_at = BadStamp],
   [row EXCEPT !.stops_at = BadStamp],
   [row EXCEPT !.starts_at = BadStamp, !.reserved_from = BadStamp],
   [row EXCEPT !.reserved_from = MissingStamp, !.reserved_till = MissingStamp]}

FaultRowChoices(c) ==
  UNION {Damaged(PlanningRow(w[1], w[2], c)) : w \in FaultRowTimes}

InitFaults ==
  /\ car \in TileCarChoices
  /\ plannings \in UNION {[1..n -> FaultRowChoices(car)] : n \in 0..MaxFaultRows}
  /\ other \in {NoOther,
                [car |-> [buffer_before_s |-> 15, buffer_after_s |-> 15],
                 plannings |-> <<PlanningRow(At(1, 9, 0), At(1, 11, 0),
                                             [buffer_before_s |-> 15, buffer_after_s |-> 15])>>]}
  /\ offsetMinutes = TZ_OFFSET_MS
  /\ nowMs = At(1, 10, 0) - offsetMinutes
  /\ minRentableGapHours = MIN_RENTABLE_GAP_HOURS_DEFAULT
  /\ pc = "idle"
  /\ resp = NoResp
  /\ stamp = MissingStamp
  /\ instant = NoInstant
  /\ config = Unset
  /\ setup = NoSetup
  /\ Quiet

NextFaults == HandlerAvailability \/ HandlerRentable

SpecFaults == InitFaults /\ [][NextFaults]_vars

\* requests to api/availability.js around the opening and closing hour
HoursRowTimes ==
  {<<At(0, 22, 0), At(1, 9, 30)>>,
   <<At(1, 8, 0), At(1, 12, 30)>>,
   <<At(1, 17, 0), At(1, 18, 30)>>,
   <<At(1, 20, 0), At(2, 8, 0)>>,
   <<At(2, 10, 0), At(2, 12, 0)>>}

HoursNowChoices ==
  {At(1, 8, 59), At(1, 9, 0), At(1, 12, 0), At(1, 17, 59), At(1, 18, 0), At(1, 23, 30)}

InitHours ==
  /\ car \in CarChoices
  /\ plannings \in UNION {[1..n -> {PlanningRow(w[1], w[2], car) : w \in HoursRowTimes}] :
                            n \in 0..MaxHoursRows}
  /\ offsetMinutes = TZ_OFFSET_MS
  /\ nowMs \in {n - offsetMinutes : n \in HoursNowChoices}
  /\ minRentableGapHours = MIN_RENTABLE_GAP_HOURS_DEFAULT
  /\ pc = "idle"
  /\ resp = NoResp
  /\ stamp = MissingStamp
  /\ instant = NoInstant
  /\ other = NoOther
  /\ config = Unset
  /\ setup = NoSetup
  /\ Quiet

NextHours == HandlerAvailability

SpecHours == InitHours /\ [][NextHours]_vars

\* account offsets: UTC, Brisbane, New York (EST), India
RoundOffsets == {0, 600, -300, 330}

\* requests at every half hour of MaxNowDays days and at the minute before,
\* under four account offsets, for the day windows
NowGrid ==
  {DAY_MS + 30 * k - e : k \in 0..(48 * MaxNowDays - 1), e \in {0, 1}}

InitDays ==
  /\ car = [buffer_before_s |-> 0, buffer_after_s |-> 0]
  /\ plannings = <<>>
  /\ offsetMinutes \in RoundOffsets
  /\ nowMs \in NowGrid
  /\ minRentableGapHours = MIN_RENTABLE_GAP_HOURS_DEFAULT
  /\ pc = "idle"
  /\ resp = NoResp
  /\ stamp = MissingStamp
  /\ instant = NoInstant
  /\ other = NoOther
  /\ config = Unset
  /\ setup = NoSetup
  /\ Quiet

SpecDays == InitDays /\ [][Next]_vars

\* every minute of MaxRoundDays days, under four account offsets
InitRound ==
  /\ car = [buffer_before_s |-> 0, buffer_after_s |-> 0]
  /\ plannings = <<>>
  /\ offsetMinutes \in RoundOffsets
  /\ nowMs \in DAY_MS..((MaxRoundDays + 1) * DAY_MS - 1)
  /\ minRentableGapHours = MIN_RENTABLE_GAP_HOURS_DEFAULT
  /\ pc = "idle"
  /\ resp = NoResp
  /\ stamp = MissingStamp
  /\ instant = NoInstant
  /\ other = NoOther
  /\ config = Unset
  /\ setup = NoSetup
  /\ Quiet

NextRound == RoundToBusinessHours

SpecRound == InitRound /\ [][NextRound]_vars

\* deployments: the offset variable unset, empty, no number, or a whole
\* number of hours (minutes for the settings field)
ConfigChoices ==
  {Unset, Empty, Invalid} \cup {Configured(n) : n \in -MaxOffset..MaxOffset}

InitSetup ==
  /\ car = [buffer_before_s |-> 0, buffer_after_s |-> 0]
  /\ plannings = <<>>
  /\ offsetMinutes = TZ_OFFSET_MS
  /\ nowMs = At(1, 10, 0)
  /\ minRentableGapHours = MIN_RENTABLE_GAP_HOURS_DEFAULT
  /\ pc = "idle"
  /\ resp = NoResp
  /\ stamp = MissingStamp
  /\ instant = NoInstant
  /\ other = NoOther
  /\ config \in ConfigChoices
  /\ setup = NoSetup
  /\ Quiet

NextSetup == LoadRentable \/ LoadRealistic \/ ReadSettings

SpecSetup == InitSetup /\ [][NextSetup]_vars

(***************************************************************************)
(* Vocabulary of the properties.                                           *)
(***************************************************************************)
Served(v) == pc = "done" /\ resp.variant = v
ServedAny == pc = "done"

Inside(iv, t) == iv.start <= t /\ t < iv.end
Covered(list, t) == \E i \in 1..Len(list) : Inside(list[i], t)

\* the minimum rentable gap the serving handler works with
MinGapServed ==
  IF resp.variant = "availability" THEN minRentableGapHours * HOUR_MS ELSE MIN_GAP_MS

\* the zone offset the serving handler works with
ZoneServed ==
  IF resp.variant = "availability" THEN offsetMinutes
  ELSE IF resp.variant = "rentable" THEN TZ_OFFSET_MS
  ELSE REALISTIC_TZ_OFFSET_MS

\* the buffered busy intervals of the car, from the unbuffered pickup and
\* return of each upstream row and the car's buffers, in upstream order
Buffered ==
  [i \in 1..Len(plannings) |->
     [start |-> plannings[i].starts_at.civil - ZoneServed - car.buffer_before_s,
      end |-> plannings[i].stops_at.civil - ZoneServed + car.buffer_after_s]]

\* the unbuffered pickup and return of the i-th upstream row, as instants
Pickup(i) == plannings[i].starts_at.civil - ZoneServed
Return(i) == plannings[i].stops_at.civil - ZoneServed

\* local time of day of an instant, in minutes after midnight
LocalMinuteOfDay(t) == (t + ZoneServed) % DAY_MS

\* today's local calendar day and the window of the k-th day of the horizon
Today == (nowMs + ZoneServed) \div DAY_MS
DayFrom(k) == (Today + k - 1) * DAY_MS - ZoneServed
DayTill(k) == DayFrom(k) + DAY_MS

\* now is free and no busy interval starts within the minimum gap after it
FreeNow ==
  /\ ~Covered(Buffered, nowMs)
  /\ \A i \in 1..Len(Buffered) :
       Buffered[i].start > nowMs => Buffered[i].start - nowMs >= MinGapServed

\* the local hour of now is within 09:00-17:59
OpenNow == (LocalMinuteOfDay(nowMs) \div HOUR_MS) \in 9..17

\* the instant reported as next available; "Available now" reports now
Reported == resp.nextMs.t
HasReported == resp.nextMs.ok

GapKept(list, t, minGap) ==
  /\ ~Covered(list, t)
  /\ \A i \in 1..Len(list) : list[i].start > t => list[i].start - t >= minGap

\* C1: the instant reported as next rentable lies inside no busy interval of
\* the car, and every busy interval that starts after it starts at least the
\* minimum rentable gap later -- for each of the three handlers (stated here
\* for the busy intervals of positive length only).
GapGuarantee ==
  (ServedAny /\ HasReported) =>
    GapKept(SelectSeq(Buffered, LAMBDA iv : iv.start < iv.end), Reported, MinGapServed)

\* C1, restricted to computeRentableStartAbs and computeRealisticNextAvailable
GapGuaranteeRentable ==
  ((Served("rentable") \/ Served("realistic")) /\ HasReported)
    => GapKept(Buffered, Reported, MinGapServed)

\* a served request that waits for a later busy interval to end because the
\* gap before it is too short
GapGuaranteeWitness ==
  /\ Served("rentable")
  /\ Len(resp.busy) >= 2
  /\ Reported = resp.busy[Len(resp.busy)].end
  /\ Reported > nowMs

\* C2: whenever now lies inside a busy interval of the car, nextAvailable is
\* not "Available now".
NeverAvailableNowWhileBooked ==
  (ServedAny /\ Covered(Buffered, nowMs)) => resp.nextAvailable # AvailableNow

\* booked during business hours, with a second reservation on the list
NeverAvailableNowWitness ==
  /\ Served("availability")
  /\ Covered(Buffered, nowMs)
  /\ OpenNow
  /\ Len(Buffered) >= 2
  /\ resp.nextAvailable.kind = "at"

\* the intervals of the response sorted by start and folded by the merge sweep
MergedIvals ==
  mergeInto(<<>>, SortByKey(Buffered, [i \in 1..Len(Buffered) |-> Buffered[i].start]))

\* C3: bookedNow is true iff start <= now < end for at least one buffered
\* pre-merge interval of the car; it is true at now = start, false at
\* now = end of a lone interval, and the merged list gives the same answer.
BookedNowConsistent ==
  (Served("availability") \/ Served("rentable")) =>
    /\ resp.bookedNow = Covered(Buffered, nowMs)
    /\ resp.bookedNow = Covered(MergedIvals, nowMs)
    /\ \A i \in 1..Len(Buffered) :
         (Buffered[i].start = nowMs /\ Buffered[i].start < Buffered[i].end)
           => resp.bookedNow
    /\ (Len(Buffered) = 1 /\ Buffered[1].end = nowMs) => ~resp.bookedNow

\* now is the start of one reservation and the end of another
BookedNowWitness ==
  /\ Served("rentable")
  /\ resp.bookedNow
  /\ \E i, j \in 1..Len(Buffered) :
       /\ Buffered[i].start = nowMs /\ Buffered[i].end > nowMs
       /\ Buffered[j].end = nowMs /\ Buffered[j].start < nowMs

\* the intervals the merge sweep of the serving handler was given
MergeInputs == SelectSeq(Buffered, LAMBDA iv : iv.end > nowMs)

Endpoints(list) == {list[i].start : i \in 1..Len(list)} \cup {list[i].end : i \in 1..Len(list)}
ProbeInstants ==
  LET e == Endpoints(MergeInputs) \cup Endpoints(resp.busy)
  IN e \cup {x - 1 : x \in e} \cup {x + 1 : x \in e}

\* C4: the merged list is sorted by start, consecutive blocks are separated
\* by a strict gap (end[i] < start[i+1]), and it covers exactly the instants
\* its inputs cover.
MergeInvariant ==
  (Served("rentable") \/ Served("realistic")) =>
    /\ \A i \in 1..(Len(resp.busy) - 1) :
         /\ resp.busy[i].start <= resp.busy[i + 1].start
         /\ resp.busy[i].end < resp.busy[i + 1].start
    /\ \A t \in ProbeInstants : Covered(resp.busy, t) = Covered(MergeInputs, t)

\* three inputs, two of them touching, folded into two blocks
MergeInvariantWitness ==
  /\ Served("rentable")
  /\ Len(MergeInputs) = 3
  /\ Len(resp.busy) = 2
  /\ \E i, j \in 1..3 : i # j /\ MergeInputs[i].end = MergeInputs[j].start
                        /\ MergeInputs[i].start < MergeInputs[i].end
                        /\ MergeInputs[j].start < MergeInputs[j].end

\* C5: merging the merged list again returns the same list.
MergeIdempotent ==
  (Served("rentable") \/ Served("realistic")) => mergeBusy(resp.busy) = resp.busy

\* a merge that really folded: three inputs, the second nested in the first
MergeIdempotentWitness ==
  /\ Served("rentable")
  /\ Len(MergeInputs) = 3
  /\ Len(resp.busy) < 3
  /\ \E i, j \in 1..3 : /\ MergeInputs[i].start < MergeInputs[j].start
                        /\ MergeInputs[j].end < MergeInputs[i].end

ScenarioB(i) ==
  /\ Inside(Buffered[i], nowMs)
  /\ \A j \in 1..Len(Buffered) :
       j # i => Buffered[j].start >= Buffered[i].end + MinGapServed

Unrounded(t) == LocalMinuteOfDay(t) > 525 /\ LocalMinuteOfDay(t) < 1080

ClosedGapTest ==
  (Served("availability") \/ Served("rentable")) =>
    \A a, b \in 1..Len(Buffered) :
      ( /\ Len(Buffered) = 2
        /\ Inside(Buffered[a], nowMs)
        /\ Buffered[b].start > Buffered[a].end
        /\ Buffered[b].start < Buffered[b].end
        /\ Served("availability") => Unrounded(Buffered[a].end) ) =>
        LET gap == Buffered[b].start - Buffered[a].end
        IN /\ gap >= MinGapServed => Reported = Buffered[a].end
           /\ gap < MinGapServed =>
                (Reported # Buffered[a].end /\ Reported >= Buffered[b].end)

\* C8 for computeRentableStartAbs alone
ClosedGapTestRentable == Served("rentable") => ClosedGapTest

\* a gap of exactly the minimum accepted by computeRentableStartAbs
ClosedGapWitness ==
  /\ Served("rentable")
  /\ Len(Buffered) = 2
  /\ \E a, b \in 1..2 :
       /\ Inside(Buffered[a], nowMs)
       /\ Buffered[b].start - Buffered[a].end = MIN_GAP_MS
       /\ Reported = Buffered[a].end

\* a gap one minute short of the minimum rejected by computeRentableStartAbs
ShortGapWitness ==
  /\ Served("rentable")
  /\ Len(Buffered) = 2
  /\ \E a, b \in 1..2 :
       /\ Inside(Buffered[a], nowMs)
       /\ Buffered[b].start - Buffered[a].end = MIN_GAP_MS - 1
       /\ Reported = Buffered[b].end

TileStatuses == {"Available", "Booked", "Heads-up"}

\* C9: the response holds exactly one tile for each day of the horizon
\* (today and the following days), and every tile's status is one of
\* Available, Booked, Heads-up.
TilesExhaustive ==
  ServedAny =>
    /\ Len(resp.tiles) = (IF resp.variant = "availability" THEN RANGE_DAYS ELSE DEFAULT_DAYS)
    /\ \A k \in 1..Len(resp.tiles) :
         /\ resp.tiles[k].date = Today + k - 1
         /\ resp.tiles[k].status \in TileStatuses

\* a response whose tiles show all three statuses
TilesExhaustiveWitness ==
  /\ Served("availability")
  /\ {resp.tiles[k].status : k \in 1..Len(resp.tiles)} = TileStatuses

OverlapsDay(iv, k) == iv.start < DayTill(k) /\ iv.end > DayFrom(k)
InDay(t, k) == DayFrom(k) <= t /\ t < DayTill(k)

\* C10: a day with no busy interval such that start < day.till and
\* end > day.from has an Available tile; so has every day of a car without
\* reservations.
NoOverlapAvailable ==
  ServedAny =>
    \A k \in 1..Len(resp.tiles) :
      (\A i \in 1..Len(Buffered) : ~OverlapsDay(Buffered[i], k))
        => resp.tiles[k] = Tile(Today + k - 1, "Available", NoTime, NoTime, NoTime, NoTime)

\* one reservation ends exactly at today's midnight, another starts exactly
\* at the next midnight, and today's tile is Available
NoOverlapWitness ==
  /\ Served("availability")
  /\ resp.tiles[1].status = "Available"
  /\ \E i, j \in 1..Len(Buffered) :
       /\ Buffered[i].end = DayFrom(1) /\ Buffered[i].start < Buffered[i].end
       /\ Buffered[j].start = DayTill(1) /\ Buffered[j].start < Buffered[j].end

\* the rows whose busy interval overlaps day k, and those picked up in it
RowsOfDay(k) == {i \in 1..Len(plannings) : OverlapsDay(Buffered[i], k)}
PickedUpIn(k) == {i \in RowsOfDay(k) : InDay(Pickup(i), k)}

\* C11: a day overlapped by the busy interval of a reservation whose
\* unbuffered pickup lies inside the day has a Booked tile, whatever else
\* returns that day and even when the buffered start lies before the day.
PickupInDayBooked ==
  ServedAny =>
    \A k \in 1..Len(resp.tiles) :
      PickedUpIn(k) # {} => resp.tiles[k].status = "Booked"

\* a Booked tile for today although another reservation, carried over from
\* yesterday, came back earlier today
PickupInDayBookedWitness ==
  /\ Served("rentable")
  /\ resp.tiles[1].status = "Booked"
  /\ \E i \in PickedUpIn(1), j \in RowsOfDay(1) :
       Pickup(j) < DayFrom(1) /\ Return(j) < Pickup(i)

\* the clock time a tile shows for an instant
Shown(t) == HHMM(t + ZoneServed)

\* the rows with the earliest unbuffered pickup among those picked up in day k
FirstPickedUpIn(k) ==
  {i \in PickedUpIn(k) : \A j \in PickedUpIn(k) : Pickup(i) <= Pickup(j)}

\* C12: a Booked tile of a day with a same-day pickup shows the unbuffered
\* pickup and return times of the reservation picked up earliest that day,
\* not the buffered bounds and not the extent of a merged busy block.
BookedShowsFirstPickup ==
  (Served("availability") \/ Served("rentable")) =>
    \A k \in 1..Len(resp.tiles) :
      (resp.tiles[k].status = "Booked" /\ PickedUpIn(k) # {}) =>
        \E i \in FirstPickedUpIn(k) :
          /\ resp.tiles[k].bookedFrom = Shown(Pickup(i))
          /\ resp.tiles[k].bookedUntil = Shown(Return(i))

\* 09:00-11:00 and 11:30-14:00 today with 15-minute buffers, which fold into
\* one busy block 08:45-14:15, and a tile showing 09:00 and 11:00
BookedShowsFirstPickupWitness ==
  /\ Served("rentable")
  /\ car.buffer_before_s = 15 /\ car.buffer_after_s = 15
  /\ Len(plannings) = 2
  /\ \E i, j \in 1..2 :
       /\ plannings[i].starts_at = Naive(At(1, 11, 30))
       /\ plannings[i].stops_at = Naive(At(1, 14, 0))
       /\ plannings[j].starts_at = Naive(At(1, 9, 0))
       /\ plannings[j].stops_at = Naive(At(1, 11, 0))
  /\ Len(MergedIvals) = 1
  /\ resp.tiles[1].status = "Booked"
  /\ resp.tiles[1].bookedFrom = <<9, 0>>
  /\ resp.tiles[1].bookedUntil = <<11, 0>>

\* the carry-over rows of day k: the busy interval started before the day and
\* ends within it; and those among them that end earliest
CarryOver(k) ==
  {i \in RowsOfDay(k) : Buffered[i].start < DayFrom(k) /\ Buffered[i].end <= DayTill(k)}
EarliestCarryOver(k) ==
  {i \in CarryOver(k) : \A j \in CarryOver(k) : Buffered[i].end <= Buffered[j].end}

LocalHour(t) == LocalMinuteOfDay(t) \div HOUR_MS

\* C13: on a day without a same-day pickup whose earliest-ending carry-over
\* reservation has an unbuffered return before the early cutoff hour, the
\* tile is Available; the unbuffered return decides, not the buffered end.
EarlyReturnAvailable ==
  Served("rentable") =>
    \A k \in 1..Len(resp.tiles) :
      ( /\ PickedUpIn(k) = {}
        /\ EarliestCarryOver(k) # {}
        /\ \A i \in EarliestCarryOver(k) : LocalHour(Return(i)) < EARLY_CUTOFF_HOUR )
        => resp.tiles[k].status = "Available"

\* a reservation carried over from yesterday and returned at 02:00, buffers
\* of 15 minutes, and today's tile Available
EarlyReturnWitness ==
  /\ Served("rentable")
  /\ car.buffer_after_s = 15
  /\ PickedUpIn(1) = {}
  /\ \E i \in EarliestCarryOver(1) : Shown(Return(i)) = <<2, 0>>
  /\ resp.tiles[1].status = "Available"

\* the free time a Heads-up tile is to show for row i: return plus the
\* buffer after, left out when it reads the same as the return
FreeShown(i) ==
  IF Shown(Buffered[i].end) = Shown(Return(i)) THEN NoTime ELSE Shown(Buffered[i].end)

\* C14: on a day without a same-day pickup whose earliest-ending carry-over
\* reservation returns at or after the early cutoff hour, the tile is
\* Heads-up, backTime is the unbuffered return, freeTime is the return plus
\* the buffer after, and freeTime is absent exactly when the two are equal.
LateReturnHeadsUp ==
  (Served("availability") \/ Served("rentable")) =>
    \A k \in 1..Len(resp.tiles) :
      ( /\ PickedUpIn(k) = {}
        /\ EarliestCarryOver(k) # {}
        /\ \A i \in EarliestCarryOver(k) : LocalHour(Return(i)) >= EARLY_CUTOFF_HOUR )
        => \E i \in EarliestCarryOver(k) :
             /\ resp.tiles[k].status = "Heads-up"
             /\ resp.tiles[k].backTime = Shown(Return(i))
             /\ resp.tiles[k].freeTime = FreeShown(i)

\* Scenario D: carried over, back at 10:00, 15 minutes of buffer after, and
\* a Heads-up tile reading back 10:00, free 10:15
LateReturnHeadsUpWitness ==
  /\ Served("rentable")
  /\ Len(plannings) = 1
  /\ 1 \in EarliestCarryOver(1)
  /\ resp.tiles[1].status = "Heads-up"
  /\ resp.tiles[1].backTime = <<10, 0>>
  /\ resp.tiles[1].freeTime = <<10, 15>>

\* C15: a day overlapped by busy intervals none of which has its pickup in
\* the day and none of which is a carry-over ending within the day has a
\* Booked tile without bookedFrom, bookedUntil, backTime or freeTime.
SpanningDayBookedNoTimes ==
  (Served("availability") \/ Served("rentable")) =>
    \A k \in 1..Len(resp.tiles) :
      (RowsOfDay(k) # {} /\ PickedUpIn(k) = {} /\ CarryOver(k) = {})
        => resp.tiles[k] = Tile(Today + k - 1, "Booked", NoTime, NoTime, NoTime, NoTime)

\* a reservation picked up yesterday and returned tomorrow, and today's tile
\* Booked without times
SpanningDayWitness ==
  /\ Served("rentable")
  /\ \E i \in RowsOfDay(1) : Pickup(i) < DayFrom(1) /\ Return(i) > DayTill(1)
  /\ PickedUpIn(1) = {} /\ CarryOver(1) = {}
  /\ resp.tiles[1] = Tile(Today, "Booked", NoTime, NoTime, NoTime, NoTime)

Parsed(f) == pc = "parsed" /\ instant.by = f

\* the offset the parser that ran takes as the operating zone's
OperatingOffset ==
  IF instant.by = "parseBooqableToAbs" THEN TZ_OFFSET_MS ELSE offsetMinutes

\* the instant a timestamp denotes: its own zone if it names one, else the
\* operating zone
Denoted(ts, operatingOffset) ==
  IF ts.kind = "zoned" THEN SomeDate(ts.civil - ts.off)
  ELSE SomeDate(ts.civil - operatingOffset)

\* what the parser that ran returns for another string
ParserRan(ts) ==
  IF instant.by = "parseBooqableToAbs" THEN parseBooqableToAbs(ts)
  ELSE IF instant.by = "parseBooqableDate" THEN parseBooqableDate(ts, offsetMinutes)
  ELSE parseBooqableDateWithOffset(ts, offsetMinutes)

\* a timestamp without zone and the same civil time suffixed with the
\* operating zone's offset parse to the same instant
NaiveAgreesWithOperatingZone ==
  ParserRan(Naive(stamp.civil)) = ParserRan(Zoned(stamp.civil, OperatingOffset))

\* C16 as stated: each of the three parsers returns, for a timestamp with a
\* zone suffix, the instant it denotes whatever the configured offset, and
\* for a timestamp without one the civil time read as UTC minus the
\* operating offset.
StampNormalized ==
  (pc = "parsed" /\ stamp.kind \in {"zoned", "naive"}) =>
    /\ instant.date = Denoted(stamp, OperatingOffset)
    /\ NaiveAgreesWithOperatingZone

\* C16 as amended: parseBooqableToAbs and the parseBooqableDate of
\* part_000 behave as stated; the parseBooqableDate of
\* src/api/availability.js drops a zone suffix and reads the digits of every
\* timestamp as civil time in the operating zone.
StampNormalizedOrLocal ==
  (pc = "parsed" /\ stamp.kind \in {"zoned", "naive"}) =>
    /\ IF Parsed("parseBooqableDate")
       THEN instant.date = SomeDate(stamp.civil - offsetMinutes)
       ELSE instant.date = Denoted(stamp, OperatingOffset)
    /\ NaiveAgreesWithOperatingZone

\* parseBooqableToAbs was given 09:30+05:30 and returned 04:00 UTC
StampNormalizedWitness ==
  /\ Parsed("parseBooqableToAbs")
  /\ stamp = Zoned(At(1, 9, 30), 330)
  /\ instant.date = SomeDate(At(1, 4, 0))

\* the configuration was read by the named variant
SetUp(v) == pc = "configured" /\ setup.by = v

\* the configuration gives no usable fixed offset
Misconfigured == config.kind \in {"unset", "empty", "invalid"}

\* C18: when the fixed-offset configuration is missing or invalid, reading it
\* ends in a fatal ConfigurationError and no offset is in force; no default
\* value takes its place.
MisconfigurationIsFatal ==
  (pc = "configured" /\ Misconfigured) =>
    /\ setup.status = "ConfigurationError"
    /\ setup.offset = NoDate

\* part_000 loaded with TIMEZONE_OFFSET_HOURS unset goes on with +10:00
MisconfigurationWitness ==
  /\ SetUp("rentable")
  /\ config = Unset
  /\ setup.status = "ready"
  /\ setup.offset = SomeDate(TZ_OFFSET_MS)

\* the pickup or the return of an upstream row does not parse
Unparseable(row) == row.starts_at.kind = "bad" \/ row.stops_at.kind = "bad"

\* the upstream rows without those
Remaining == SelectSeq(plannings, LAMBDA row : ~Unparseable(row))

\* a diagnostic names the car, the field and the raw value of row i
Diagnosed(i) ==
  \E d \in 1..Len(resp.diagnostics) :
    /\ resp.diagnostics[d].resource = 1
    /\ \/ /\ resp.diagnostics[d].field = "starts_at"
          /\ resp.diagnostics[d].raw = plannings[i].starts_at
          /\ plannings[i].starts_at.kind = "bad"
       \/ /\ resp.diagnostics[d].field = "stops_at"
          /\ resp.diagnostics[d].raw = plannings[i].stops_at
          /\ plannings[i].stops_at.kind = "bad"

\* what the serving handler answers to a request
ResponseTo(rows, c, oth) ==
  IF resp.variant = "availability"
  THEN availabilityResponse(rows, c, oth, nowMs, offsetMinutes, minRentableGapHours)
  ELSE IF resp.variant = "rentable" THEN rentableResponse(rows, oth, nowMs)
  ELSE realisticResponse(rows, oth, nowMs)

\* the result of car 1 in a response
OwnResult(r) ==
  [bookedNow |-> r.bookedNow, nextAvailable |-> r.nextAvailable, tiles |-> r.tiles]

\* the result of the other car in a response
FleetResult(r) ==
  [bookedNow |-> r.fleet.bookedNow, nextAvailable |-> r.fleet.nextAvailable,
   tiles |-> r.fleet.tiles]

DroppedWithDiagnostic ==
  ServedAny =>
    /\ \A i \in 1..Len(plannings) : Unparseable(plannings[i]) => Diagnosed(i)
    /\ OwnResult(resp) = OwnResult(ResponseTo(Remaining, car, other))
    /\ FleetResult(resp) = FleetResult(ResponseTo(Remaining, car, other))

\* part_000 keeps a row whose pickup does not parse: today shows Booked
\* with an empty From where the remaining rows give Available, and nothing
\* is recorded
DroppedWithDiagnosticWitness ==
  /\ Served("rentable")
  /\ Len(plannings) = 1
  /\ plannings[1].starts_at = BadStamp
  /\ plannings[1].reserved_from = Naive(At(1, 13, 0) - car.buffer_before_s)
  /\ resp.tiles[1].status = "Booked"
  /\ resp.tiles[1].bookedFrom = NoTime
  /\ OwnResult(ResponseTo(Remaining, car, other)).tiles[1].status = "Available"
  /\ resp.diagnostics = <<>>

\* the pickup and the return of an upstream row both parse
Parseable(row) ==
  row.starts_at.kind \in {"naive", "zoned"} /\ row.stops_at.kind \in {"naive", "zoned"}

\* the busy intervals the serving handler built, with the unbuffered times
\* it keeps beside them
BuiltIntervals ==
  IF resp.variant = "availability"
  THEN [j \in 1..Len(resp.ivals) |->
          [start |-> resp.ivals[j].startMs, end |-> resp.ivals[j].endMs,
           pickup |-> SomeDate(resp.ivals[j].startsRaw),
           return |-> SomeDate(resp.ivals[j].stopsRaw)]]
  ELSE LET kept == SelectSeq(resp.ivals, LAMBDA p : p.from.ok /\ p.till.ok)
       IN [j \in 1..Len(kept) |->
             [start |-> kept[j].from.t, end |-> kept[j].till.t,
              pickup |-> kept[j].humanFrom, return |-> kept[j].humanTill]]

\* C19: for every reservation whose times parse a busy interval is built
\* with start = pickup - bufferBefore and end = return + bufferAfter (each
\* buffer once), which therefore contains [pickup, return], and the
\* unbuffered pickup and return are kept beside it.
BufferPadding ==
  ServedAny =>
    \A i \in 1..Len(plannings) :
      Parseable(plannings[i]) =>
        \E j \in 1..Len(BuiltIntervals) :
          /\ BuiltIntervals[j].start = Pickup(i) - car.buffer_before_s
          /\ BuiltIntervals[j].end = Return(i) + car.buffer_after_s
          /\ BuiltIntervals[j].pickup = SomeDate(Pickup(i))
          /\ BuiltIntervals[j].return = SomeDate(Return(i))
          /\ BuiltIntervals[j].start <= Pickup(i)
          /\ Return(i) <= BuiltIntervals[j].end

\* part_000 on a row without reserved times, for a car with 15-minute
\* buffers: the interval built is the unbuffered 13:00-17:00
BufferPaddingWitness ==
  /\ Served("rentable")
  /\ car.buffer_before_s = 15
  /\ Len(plannings) = 1
  /\ plannings[1].reserved_from = MissingStamp
  /\ Pickup(1) = At(1, 13, 0) - TZ_OFFSET_MS
  /\ Len(BuiltIntervals) = 1
  /\ BuiltIntervals[1].start = Pickup(1)
  /\ BuiltIntervals[1].end = Return(1)

\* roundToBusinessHours returned for the instant nowMs
Rounded == pc = "rounded" /\ instant.by = "roundToBusinessHours"

\* the local calendar day and minute of day of nowMs in the account's zone
AccountDay == (nowMs + offsetMinutes) \div DAY_MS
AccountMinuteOfDay == (nowMs + offsetMinutes) % DAY_MS

\* C27: roundToBusinessHours maps a local time of 18:00 or later to 09:00
\* local of the next day, a local time of 08:45 or earlier to 09:00 local of
\* the same day, and leaves every other instant unchanged; its result is
\* never earlier than its input and rounding the result changes nothing.
\* (A local time is the clock reading in hours and minutes, as the function
\* reads it with getUTCHours and getUTCMinutes.)
RoundingLaw ==
  Rounded =>
    LET r == instant.date.t
    IN /\ AccountMinuteOfDay >= 18 * HOUR_MS
            => r = (AccountDay + 1) * DAY_MS + 9 * HOUR_MS - offsetMinutes
       /\ AccountMinuteOfDay <= 8 * HOUR_MS + 45
            => r = AccountDay * DAY_MS + 9 * HOUR_MS - offsetMinutes
       /\ (AccountMinuteOfDay > 8 * HOUR_MS + 45 /\ AccountMinuteOfDay < 18 * HOUR_MS)
            => r = nowMs
       /\ r >= nowMs
       /\ roundToBusinessHours(r, offsetMinutes) = r

\* 18:00 local of day 1 under +05:30 goes to 09:00 local of day 2
RoundingLawWitness ==
  /\ Rounded
  /\ offsetMinutes = 330
  /\ nowMs = At(1, 18, 0) - 330
  /\ instant.date = SomeDate(At(2, 9, 0) - 330)

\* the day windows of the response that hold the instant t
WindowsHolding(t) ==
  {i \in 1..Len(resp.days) : resp.days[i].fromAbs <= t /\ t < resp.days[i].tillAbs}

\* C25: the day windows of the horizon are consecutive half-open 24-hour
\* intervals that begin at local midnight under the fixed offset: the first
\* holds now, each ends where the next begins, and every instant of the
\* horizon lies in exactly one of them.
DayWindowsPartition ==
  ServedAny =>
    LET days == resp.days
        n == Len(days)
    IN /\ n > 0
       /\ days[1].fromAbs <= nowMs /\ nowMs < days[1].tillAbs
       /\ \A i \in 1..n :
            /\ (days[i].fromAbs + ZoneServed) % DAY_MS = 0
            /\ days[i].tillAbs = days[i].fromAbs + DAY_MS
            /\ days[i].date = (days[i].fromAbs + ZoneServed) \div DAY_MS
       /\ \A i \in 1..(n - 1) : days[i].tillAbs = days[i + 1].fromAbs
       /\ \A i \in 1..n :
            \A t \in {days[i].fromAbs, days[i].fromAbs + 1, days[i].tillAbs - 1} :
              WindowsHolding(t) = {i}
       /\ WindowsHolding(nowMs) = {1}
       /\ WindowsHolding(days[1].fromAbs - 1) = {}
       /\ WindowsHolding(days[n].tillAbs) = {}

\* availability.js served at 23:59 local under -05:00: today's window ends
\* one minute after now
DayWindowsWitness ==
  /\ Served("availability")
  /\ offsetMinutes = -300
  /\ (nowMs + offsetMinutes) % DAY_MS = DAY_MS - 1
  /\ Len(resp.days) = RANGE_DAYS
  /\ resp.days[1].tillAbs = nowMs + 1
  /\ resp.days[2].fromAbs = nowMs + 1

NeverBeforeNow ==
  ((Served("availability") \/ Served("rentable")) /\ HasReported) => Reported >= nowMs

\* the same, for computeRentableStartAbs of part_000 alone
NeverBeforeNowRentable ==
  (Served("rentable") /\ HasReported) => Reported >= nowMs

\* api/availability.js at 19:00 for a car whose only reservation today was
\* 09:00-11:00: the fallback reports 11:00 of today
NeverBeforeNowWitness ==
  /\ Served("availability")
  /\ LocalMinuteOfDay(nowMs) = 19 * HOUR_MS
  /\ car = [buffer_before_s |-> 0, buffer_after_s |-> 0]
  /\ Len(plannings) = 1
  /\ Pickup(1) = At(1, 9, 0) - offsetMinutes
  /\ Return(1) = At(1, 11, 0) - offsetMinutes
  /\ ~resp.bookedNow
  /\ Reported = At(1, 11, 0) - offsetMinutes
  /\ Reported < nowMs

\* the instants at which the answer can change: now, and the ends of the
\* busy intervals with the minute before and after each
Candidates ==
  {nowMs} \cup UNION {{Buffered[i].start - 1, Buffered[i].start, Buffered[i].start + 1,
                        Buffered[i].end - 1, Buffered[i].end, Buffered[i].end + 1} :
                       i \in 1..Len(Buffered)}

\* t lies in no busy interval and no busy interval starts in [t, t + minGap)
Qualifies(t) ==
  /\ ~Covered(Buffered, t)
  /\ \A i \in 1..Len(Buffered) :
       ~(t <= Buffered[i].start /\ Buffered[i].start < t + MinGapServed)

\* the same, where an interval of length zero that starts at t itself does
\* not count
QualifiesBesideEmpty(t) ==
  /\ ~Covered(Buffered, t)
  /\ \A i \in 1..Len(Buffered) :
       (t <= Buffered[i].start /\ Buffered[i].start < t + MinGapServed)
         => (Buffered[i].start = t /\ Buffered[i].end = t)

AlwaysAResult ==
  (Served("availability") \/ Served("rentable")) =>
    /\ resp.bookedNow \in BOOLEAN
    /\ resp.nextAvailable.kind \in {"Available now", "at"}
    /\ resp.nextMs.ok
    /\ resp.nextAvailable.kind = "at" => resp.nextAvailable.time # NoTime
    /\ \A i \in 1..Len(resp.busy) : resp.busy[i].start <= resp.busy[i].end
    /\ Len(resp.days) > 0
    /\ Len(resp.tiles) = Len(resp.days)
    /\ \A k \in 1..Len(resp.tiles) : resp.tiles[k].status \in TileStatuses

\* part_000 served for two equal reservations of length zero that lie in the
\* past and a third one
AlwaysAResultWitness ==
  /\ Served("rentable")
  /\ Len(plannings) = 3
  /\ plannings[1] = plannings[2]
  /\ Buffered[1].start = Buffered[1].end
  /\ Buffered[1].end < nowMs
  /\ Inside(Buffered[3], nowMs)
  /\ resp.nextMs.ok
  /\ Len(resp.busy) = 1

(***************************************************************************)
(* The cache of api/availability.js                                        *)
(***************************************************************************)
Answered(r) == reqs[r].pc = "answered"
Succeeded(r) == Answered(r) /\ reqs[r].res.status = 200
Failed(r) == Answered(r) /\ reqs[r].res.status = 500
Recomputed(r) == Succeeded(r) /\ ~reqs[r].hit

\* a request that was not answered in this state and is answered in the next
AnswersNow(r) ==
  /\ r \in 1..Len(reqs')
  /\ reqs'[r].pc = "answered"
  /\ (r > Len(reqs) \/ reqs[r].pc # "answered")

\* C28 (state part): a request is answered from the cache exactly when it
\* found a payload stored less than CACHE_MS before it began, and then the
\* answer is that payload; every other request goes to upstream or fails.
ServedOnlyWhileFresh ==
  \A r \in 1..Len(reqs) :
    /\ reqs[r].hit <=> (reqs[r].found.payload # NullPayload
                          /\ reqs[r].began - reqs[r].found.at < CACHE_MS)
    /\ reqs[r].hit => /\ Succeeded(r)
                       /\ reqs[r].res.body = reqs[r].found.payload
                       /\ reqs[r].began - reqs[r].found.at >= 0

\* C28 (step part): a request that recomputes successfully replaces the
\* cache with the payload it sends and the time of the store.
StoreReplacesCache ==
  \A r \in 1..Len(reqs') :
    (AnswersNow(r) /\ reqs'[r].res.status = 200 /\ ~reqs'[r].hit)
      => cache' = [at |-> clock, payload |-> reqs'[r].res.body]

\* C28: cache freshness -- the handler serves the cached payload only less
\* than CACHE_MS after it was stored, recomputes otherwise, and every
\* successful recomputation replaces the cache with its payload and time.
CacheFreshness == []ServedOnlyWhileFresh /\ [][StoreReplacesCache]_vars

\* a payload was stored, CACHE_MS passed, and the next request recomputed
\* instead of being served the stored payload
CacheFreshnessWitness ==
  \E r \in 1..Len(reqs) :
    /\ Recomputed(r)
    /\ reqs[r].found.payload # NullPayload
    /\ reqs[r].began - reqs[r].found.at = CACHE_MS
    /\ cache.at = reqs[r].at
    /\ cache.at > reqs[r].found.at

\* C29 (state part): _cache is the empty record or the pair one successful
\* recomputation wrote; every failed request was answered 500, no-store,
\* with an error body, and no error body is in the cache or was served
\* from it.
CacheIsOneWrite ==
  /\ \/ cache = EmptyCache
     \/ \E r \in 1..Len(reqs) :
          Recomputed(r) /\ cache = [at |-> reqs[r].at, payload |-> reqs[r].res.body]
  /\ cache.payload # ErrorBody
  /\ \A r \in 1..Len(reqs) :
       /\ Failed(r) => reqs[r].res = [status |-> 500, body |-> ErrorBody,
                                      cacheControl |-> "no-store"]
       /\ Succeeded(r) => reqs[r].res.body.kind = "payload"
       /\ Answered(r) => (Succeeded(r) \/ Failed(r))

\* C29 (step part): a request that fails leaves _cache as it was.
FailureLeavesCache ==
  \A r \in 1..Len(reqs') :
    (AnswersNow(r) /\ reqs'[r].res.status = 500) => cache' = cache

\* C29: cache integrity under interleaving -- in every interleaving of
\* requests _cache is its initial record or an (at, payload) pair written
\* together by one successful request, and a failing request answers 500
\* with no-store and leaves _cache unchanged.
CacheIntegrity == []CacheIsOneWrite /\ [][FailureLeavesCache]_vars

\* two requests were in flight together; one stored its payload and the
\* other failed afterwards, with the stored pair still in the cache
CacheIntegrityWitness ==
  \E r, q \in 1..Len(reqs) :
    /\ Recomputed(r)
    /\ Failed(q)
    /\ reqs[q].began <= reqs[r].at
    /\ reqs[q].found = EmptyCache
    /\ reqs[r].found = EmptyCache
    /\ cache = [at |-> reqs[r].at, payload |-> reqs[r].res.body]

\* the clock at which the answer of request r was produced
AnswerTime(r) == IF reqs[r].hit THEN reqs[r].began ELSE reqs[r].at

\* requests do not change what they read
InputsUntouched ==
  reqs' # reqs => <<plannings, car, other, nowMs, offsetMinutes, minRentableGapHours>>'
                    = <<plannings, car, other, nowMs, offsetMinutes, minRentableGapHours>>

\* body carries the classification of rows at clock value ms
Classifies(body, rows, ms) ==
  LET r == availabilityResponse(rows, car, other, dateNow(ms), offsetMinutes,
                                minRentableGapHours)
  IN /\ body.kind = "payload"
     /\ body.bookedNow = r.bookedNow
     /\ body.nextAvailable = r.nextAvailable
     /\ body.tiles = r.tiles

\* every successful answer is the classification of the reservations and
\* the time of the request itself
AnswersOwnInputs ==
  \A r \in 1..Len(reqs) :
    Succeeded(r) => Classifies(reqs[r].res.body, reqs[r].saw, AnswerTime(r))

\* C21 as stated: purity -- the answer depends on the inputs of the
\* invocation alone; nothing an earlier invocation computed is used.
Purity == []AnswersOwnInputs /\ [][InputsUntouched]_vars

\* the answers of the handler: a recomputed answer is the classification
\* of the request's own inputs; an answer from the cache is the payload of
\* the recomputation that stored it, less than CACHE_MS old
AnswersOwnInputsOrFreshStore ==
  \A r \in 1..Len(reqs) :
    /\ Recomputed(r) => Classifies(reqs[r].res.body, reqs[r].saw, reqs[r].at)
    /\ (Succeeded(r) /\ reqs[r].hit) =>
         \E q \in 1..Len(reqs) :
           /\ Recomputed(q)
           /\ reqs[q].at <= reqs[r].began
           /\ reqs[r].began - reqs[q].at < CACHE_MS
           /\ Classifies(reqs[r].res.body, reqs[q].saw, reqs[q].at)

\* C21 (amended): purity of the recomputation -- a request that goes to
\* upstream answers with the classification of its own inputs whatever
\* earlier requests computed; a request arriving less than CACHE_MS after
\* a store answers with the stored payload; no request changes its inputs.
PurityBesideCache == []AnswersOwnInputsOrFreshStore /\ [][InputsUntouched]_vars

\* a request was answered from the cache with a payload that is not the
\* classification of the reservations upstream held when it arrived
PurityWitness ==
  \E r \in 1..Len(reqs) :
    /\ Succeeded(r)
    /\ reqs[r].hit
    /\ ~Classifies(reqs[r].res.body, reqs[r].saw, reqs[r].began)

(***************************************************************************)
(* The retries of booqable()                                               *)
(***************************************************************************)
CallRuns == call.state \in {"fetching", "sleeping"}
CallEnded == call.state \in {"returned", "thrown"}

\* the responses the call has seen so far
Fetches == Len(call.statuses)

RetryBounded ==
  /\ call.attempt <= 7
  /\ Fetches <= 8
  /\ Len(call.waits) <= 7
  \* every response before the last one seen was a 429: nothing else is retried
  /\ \A i \in 1..Fetches : (i < Fetches \/ CallRuns) => call.statuses[i] = 429
  \* one wait per retry, 500 * 2^attempt ms, strictly increasing
  /\ Len(call.waits) = (IF call.state = "sleeping" THEN Fetches ELSE call.attempt)
  /\ \A i \in 1..Len(call.waits) : call.waits[i] = 500 * 2^(i - 1)
  /\ \A i, j \in 1..Len(call.waits) : i < j => call.waits[i] < call.waits[j]
  \* a response that is not ok, and a 429 on the 8th attempt, end the call
  \* with an error, which the handler answers with 500
  /\ CallEnded =>
       LET last == call.statuses[Fetches]
       IN /\ (last < 200 \/ last > 299) => call.state = "thrown"
          /\ last = 429 => Fetches = 8
          /\ call.state = "returned" => (last >= 200 /\ last <= 299)
  /\ call.state = "thrown" <=> call.answer = 500

\* C30: bounded retry -- booqable() retries only on 429, at most 7 times (8
\* attempts) with waits of 500 * 2^attempt ms that strictly increase; any
\* other non-OK response, or a 429 on the 8th attempt, raises an error
\* that the handler answers with 500; every call ends with a result or an
\* error.
BoundedRetry == []RetryBounded /\ (CallRuns ~> CallEnded)

\* a call was answered 429 eight times and threw after seven waits
BoundedRetryWitness ==
  /\ call.state = "thrown"
  /\ Fetches = 8
  /\ call.statuses[8] = 429
  /\ Len(call.waits) = 7
  /\ call.waits[7] = 32000
  /\ call.answer = 500

====
